---- MODULE Spec2Model ----
(***************************************************************************)
(* Model of the Qdrant-backed training-data vector store of sqlvana        *)
(* (src/src/sqlvana/qdrant/qdrant.py).                                     *)
(*                                                                         *)
(* Python strings are modelled as sequences of one-character strings, so   *)
(* that formatting and parsing of point ids are computed, not assumed.     *)
(* Python None is the one-element sequence <<"None">>, which is no string. *)
(***************************************************************************)
EXTENDS Integers, Sequences, FiniteSets, TLC

\* ------------------------------------------------------------------ bounds
MaxTexts == 2          \* number of distinct ddl / documentation / question texts
MaxSqlExamples == 2    \* number of distinct (question, sql) pairs
MaxScanned == 3        \* number of points in a collection that is listed page by page
MaxCacheIds == 2       \* number of distinct ids passed to a MemoryCache
MaxIssued == 1         \* number of ids /generate_sql hands out

\* ------------------------------------------------------- program constants
DefaultNResults == 10
SCROLL_SIZE == 1000

DOCUMENTATION_COLLECTION_NAME == "documentation"
DDL_COLLECTION_NAME == "ddl"
SQL_COLLECTION_NAME == "sql"

CollectionNames ==
    {SQL_COLLECTION_NAME, DDL_COLLECTION_NAME, DOCUMENTATION_COLLECTION_NAME}

\* The dict ID_SUFFIXES in its insertion (= iteration) order.
ID_SUFFIXES ==
    << <<DDL_COLLECTION_NAME, <<"d", "d", "l">> >>,
       <<DOCUMENTATION_COLLECTION_NAME, <<"d", "o", "c">> >>,
       <<SQL_COLLECTION_NAME, <<"s", "q", "l">> >> >>

ID_SUFFIXES_keys == {ID_SUFFIXES[i][1] : i \in 1..Len(ID_SUFFIXES)}

\* ID_SUFFIXES[collection_name]
SuffixOf(collection_name) ==
    LET i == CHOOSE j \in 1..Len(ID_SUFFIXES) : ID_SUFFIXES[j][1] = collection_name
    IN  ID_SUFFIXES[i][2]

None == <<"None">>

\* The builtin `type`, the object that line 322 compares with each suffix.
BuiltinType == <<"<class 'type'>">>

\* ------------------------------------------------------------------ texts
Digits == <<"1", "2", "3", "4", "5", "6", "7", "8", "9">>

Text(i) == <<Digits[i]>>

Texts == {Text(i) : i \in 1..MaxTexts}

\* The (question, sql) pairs used as SQL examples.
SqlExamples == {<<Text(1), Text(i)>> : i \in 1..MaxSqlExamples}

\* "Question: {0}\n\nSQL: {1}" filled with question and sql (spec section 3).
QuestionAnswerText(question, sql) == <<"Q">> \o question \o <<"S">> \o sql

\* ------------------------------------------------------- string primitives
\* positions of the separator in s
DashPositions(s) == {i \in 1..Len(s) : s[i] = "-"}

MaxOf(S) == CHOOSE x \in S : \A y \in S : y <= x

MinOf(S) == CHOOSE x \in S : \A y \in S : x <= y

\* s.rsplit("-", 1)
rsplit(s) ==
    IF DashPositions(s) = {}
    THEN <<s>>
    ELSE LET k == MaxOf(DashPositions(s))
         IN  <<SubSeq(s, 1, k - 1), SubSeq(s, k + 1, Len(s))>>

\* ------------------------------------------------------------------ codec
_format_point_id(id, collection_name) ==
    id \o <<"-">> \o SuffixOf(collection_name)

\* _parse_point_id comparing the parsed suffix and, when no suffix matches,
\* returning the collection the loop ended on in place of raising
_parse_point_id_defaulting(id) ==
    LET parts == rsplit(id)
    IN  IF Len(parts) # 2
        THEN [raised |-> "ValueError", id |-> None, collection_name |-> "None"]
        ELSE LET hits == {i \in 1..Len(ID_SUFFIXES) : parts[2] = ID_SUFFIXES[i][2]}
             IN  IF hits # {}
                 THEN [raised |-> "",
                       id |-> parts[1],
                       collection_name |-> ID_SUFFIXES[MinOf(hits)][1]]
                 ELSE [raised |-> "",
                       id |-> parts[1],
                       collection_name |-> ID_SUFFIXES[Len(ID_SUFFIXES)][1]]

\* Result of _parse_point_id: raised = "" and the returned pair, or the
\* exception raised.  The loop variable `suffix` shadows the parsed suffix and
\* the test compares the builtin `type` with it.
_parse_point_id(id) ==
    LET parts == rsplit(id)
    IN  IF Len(parts) # 2
        THEN [raised |-> "ValueError", id |-> None, collection_name |-> "None"]
        ELSE LET hits == {i \in 1..Len(ID_SUFFIXES) : BuiltinType = ID_SUFFIXES[i][2]}
             IN  IF hits # {}
                 THEN [raised |-> "",
                       id |-> parts[1],
                       collection_name |-> ID_SUFFIXES[MinOf(hits)][1]]
                 ELSE [raised |-> "ValueError", id |-> None, collection_name |-> "None"]

\* ------------------------------------------------------------- identifiers
\* utils.deterministic_uuid: a deterministic, collision-free hash of the
\* content, written with separators inside it as a UUID is.
deterministic_uuid(content) == <<"u", "-">> \o content

\* ------------------------------------------------------ embedding provider
DigitValue(c) ==
    IF \E i \in 1..Len(Digits) : Digits[i] = c
    THEN CHOOSE i \in 1..Len(Digits) : Digits[i] = c
    ELSE 0

RECURSIVE SumDigits(_)
SumDigits(s) == IF s = <<>> THEN 0 ELSE DigitValue(Head(s)) + SumDigits(Tail(s))

\* generate_embedding: a pure function of the text giving a vector of fixed
\* length (here one coordinate).
generate_embedding(data) == <<SumDigits(data)>>

\* len(self.generate_embedding("ABCDEF"))
ProbeDimension == Len(generate_embedding(<<"A", "B", "C", "D", "E", "F">>))

Abs(x) == IF x < 0 THEN -x ELSE x

\* Distance of two vectors under the collection's metric.
Distance(v, w) == Abs(v[1] - w[1])

\* ----------------------------------------------------------------- points
\* models.PointStruct(id, vector, payload) as built by add_question_sql
SqlPoint(question, sql) ==
    [id |-> deterministic_uuid(QuestionAnswerText(question, sql)),
     vector |-> generate_embedding(QuestionAnswerText(question, sql)),
     payload |-> [question |-> question, sql |-> sql]]

\* models.PointStruct(id, vector, payload) as built by add_ddl
DdlPoint(ddl) ==
    [id |-> deterministic_uuid(ddl),
     vector |-> generate_embedding(ddl),
     payload |-> [ddl |-> ddl]]

\* models.PointStruct(id, vector, payload) as built by add_documentation
DocPoint(documentation) ==
    [id |-> deterministic_uuid(documentation),
     vector |-> generate_embedding(documentation),
     payload |-> [documentation |-> documentation]]

\* ---------------------------------------------------------------- backend
\* The backend holds, per existing collection, a set of points with distinct
\* ids.  A backend value is a record [exists, points].

\* client.upsert(collection_name, points=[p]): insert or replace by id
Upsert(points, p) == {x \in points : x.id # p.id} \cup {p}

\* client.delete(collection_name, points_selector=[id]): delete if present
Delete(points, id) == {x \in points : x.id # id}

CharRank(c) ==
    IF c = "-" THEN 0
    ELSE IF DigitValue(c) > 0 THEN DigitValue(c)
    ELSE IF c = "Q" THEN 20
    ELSE IF c = "S" THEN 21
    ELSE 30

\* lexicographic order of ids, the order in which the backend scrolls
RECURSIVE IdLess(_, _)
IdLess(a, b) ==
    IF b = <<>> THEN FALSE
    ELSE IF a = <<>> THEN TRUE
    ELSE IF Head(a) # Head(b) THEN CharRank(Head(a)) < CharRank(Head(b))
    ELSE IdLess(Tail(a), Tail(b))

\* the points of a set as the sequence in id order
RECURSIVE InIdOrder(_)
InIdOrder(points) ==
    IF points = {} THEN <<>>
    ELSE LET first == CHOOSE p \in points : \A q \in points \ {p} : IdLess(p.id, q.id)
         IN  <<first>> \o InIdOrder(points \ {first})

\* client.scroll(collection_name, limit, offset): one page from the point
\* with id `offset` on (from the start when None) and the next cursor.
Scroll(points, limit, offset) ==
    LET all == InIdOrder(points)
        from == IF offset = None THEN all
                ELSE InIdOrder({p \in points : ~IdLess(p.id, offset)})
    IN  IF Len(from) > limit
        THEN [records |-> SubSeq(from, 1, limit), next_offset |-> from[limit + 1].id]
        ELSE [records |-> from, next_offset |-> None]

\* client.search(collection_name, query_vector, limit): the possible ranked
\* results, nearest first, truncated to limit; ties in either order.
Search(points, query_vector, limit) ==
    LET n == Cardinality(points)
        k == IF limit < n THEN limit ELSE n
        ranked == {r \in [1..n -> points] :
                     /\ \A i, j \in 1..n : i # j => r[i] # r[j]
                     /\ \A i, j \in 1..n :
                          i < j => Distance(r[i].vector, query_vector)
                                     <= Distance(r[j].vector, query_vector)}
    IN  {SubSeq(r, 1, k) : r \in ranked}

\* ----------------------------------------------------------------- store
\* grpc.PointId with num == 0 and uuid == "", the gRPC form of "no cursor"
GrpcEmptyPointId == <<"PointId(num=0, uuid='')">>

\* next_offset is None or (isinstance(next_offset, grpc.PointId) and ...)
IsNoMoreData(next_offset) == next_offset = None \/ next_offset = GrpcEmptyPointId

\* a loop body that also stops at an empty page
ScrollIteration_stop_on_empty(acc, answer) ==
    [results |-> acc \o answer.records,
     next_offset |-> answer.next_offset,
     stop_scrolling |-> IsNoMoreData(answer.next_offset) \/ answer.records = <<>>]

\* One pass through the body of the loop of _get_all_points, given the page
\* the backend answered with: take the cursor, decide whether to stop, and
\* extend the results with the records of the page.
ScrollIteration(acc, answer) ==
    [results |-> acc \o answer.records,
     next_offset |-> answer.next_offset,
     stop_scrolling |-> IsNoMoreData(answer.next_offset)]

\* _get_all_points: scroll page after page until the cursor is None.
RECURSIVE ScrollLoop(_, _, _)
ScrollLoop(points, acc, offset) ==
    LET it == ScrollIteration(acc, Scroll(points, SCROLL_SIZE, offset))
    IN  IF it.stop_scrolling
        THEN it.results
        ELSE ScrollLoop(points, it.results, it.next_offset)

_get_all_points(points) == ScrollLoop(points, <<>>, None)

\* builtin format(value, format_spec): TypeError with more than two arguments
BuiltinFormat(args) ==
    IF Len(args) > 2
    THEN [raised |-> "TypeError", value |-> None]
    ELSE [raised |-> "", value |-> args[1]]

QuestionAnswerTemplate == <<"Q", "{0}", "S", "{1}">>

\* Every operation below yields a record
\*   raised       "" or the name of the exception that left the operation
\*   ret          the returned value (None when raised)
\*   collections  the contents of the collections afterwards
\*   calls        the backend calls issued, as <<method, collection>> pairs

add_question_sql(coll, question, sql) ==
    LET question_answer == BuiltinFormat(<<QuestionAnswerTemplate, question, sql>>)
    IN  IF question_answer.raised # ""
        THEN [raised |-> question_answer.raised, ret |-> None,
              collections |-> coll, calls |-> <<>>]
        ELSE LET id == deterministic_uuid(question_answer.value)
                 p == [id |-> id,
                       vector |-> generate_embedding(question_answer.value),
                       payload |-> [question |-> question, sql |-> sql]]
             IN  [raised |-> "",
                  ret |-> _format_point_id(id, SQL_COLLECTION_NAME),
                  collections |->
                      [coll EXCEPT ![SQL_COLLECTION_NAME] = Upsert(@, p)],
                  calls |-> << <<"upsert", SQL_COLLECTION_NAME>> >>]

\* add_ddl with a fresh id per call in place of the content-derived one
add_ddl_fresh_id(coll, ddl) ==
    LET id == deterministic_uuid(ddl)
                \o <<Digits[Cardinality(coll[DDL_COLLECTION_NAME]) + 1]>>
        p == [id |-> id, vector |-> generate_embedding(ddl), payload |-> [ddl |-> ddl]]
    IN  [raised |-> "",
         ret |-> _format_point_id(id, DDL_COLLECTION_NAME),
         collections |-> [coll EXCEPT ![DDL_COLLECTION_NAME] = Upsert(@, p)],
         calls |-> << <<"upsert", DDL_COLLECTION_NAME>> >>]

add_ddl(coll, ddl) ==
    LET id == deterministic_uuid(ddl)
        p == [id |-> id, vector |-> generate_embedding(ddl), payload |-> [ddl |-> ddl]]
    IN  [raised |-> "",
         ret |-> _format_point_id(id, DDL_COLLECTION_NAME),
         collections |-> [coll EXCEPT ![DDL_COLLECTION_NAME] = Upsert(@, p)],
         calls |-> << <<"upsert", DDL_COLLECTION_NAME>> >>]

add_documentation(coll, documentation) ==
    LET id == deterministic_uuid(documentation)
        p == [id |-> id,
              vector |-> generate_embedding(documentation),
              payload |-> [documentation |-> documentation]]
    IN  [raised |-> "",
         ret |-> _format_point_id(id, DOCUMENTATION_COLLECTION_NAME),
         collections |-> [coll EXCEPT ![DOCUMENTATION_COLLECTION_NAME] = Upsert(@, p)],
         calls |-> << <<"upsert", DOCUMENTATION_COLLECTION_NAME>> >>]

\* Qdrant_VectorStore defines no attribute documentation_collection (line 175
\* reads it).
HasDocumentationCollection == FALSE

\* A row of the training-data table.
Row(id, question, content, training_data_type) ==
    [id |-> id, question |-> question, content |-> content,
     training_data_type |-> training_data_type]

\* lines 139-153: the rows of the SQL examples
SqlRows(sql_data) ==
    [i \in 1..Len(sql_data) |->
        Row(_format_point_id(sql_data[i].id, SQL_COLLECTION_NAME),
            sql_data[i].payload.question,
            sql_data[i].payload.sql,
            "sql")]

\* lines 159-161: the id column of the ddl rows, built by iterating sql_data
DdlIdList(sql_data) ==
    [i \in 1..Len(sql_data) |-> _format_point_id(sql_data[i].id, DDL_COLLECTION_NAME)]

\* lines 158-171: the rows of the DDL statements
DdlRows(id_list, ddl_data) ==
    [i \in 1..Len(ddl_data) |-> Row(id_list[i], None, ddl_data[i].payload.ddl, "ddl")]

\* lines 178-192: the rows of the documentation snippets
DocRows(doc_data) ==
    [i \in 1..Len(doc_data) |->
        Row(_format_point_id(doc_data[i].id, DOCUMENTATION_COLLECTION_NAME),
            None,
            doc_data[i].payload.documentation,
            "documentation")]

ScrollCall(name) == <<"scroll", name>>

\* lines 175-196, reached with the table df built from sql and ddl
TrainingDataTail(coll, df, calls) ==
    IF ~HasDocumentationCollection
    THEN [raised |-> "AttributeError", ret |-> None, df |-> df, collections |-> coll,
          calls |-> calls]
    ELSE LET doc_data == _get_all_points(coll[DOCUMENTATION_COLLECTION_NAME])
             df3 == IF doc_data # <<>> THEN df \o DocRows(doc_data) ELSE df
         IN  [raised |-> "", ret |-> df3, df |-> df3, collections |-> coll,
              calls |-> Append(calls, ScrollCall(DOCUMENTATION_COLLECTION_NAME))]

\* lines 157-173, reached with the table df built from sql; pd.DataFrame
\* raises ValueError for columns of different lengths
TrainingDataDdl(coll, sql_data, df, calls) ==
    LET ddl_data == _get_all_points(coll[DDL_COLLECTION_NAME])
    IN  IF ddl_data = <<>>
        THEN TrainingDataTail(coll, df, calls)
        ELSE IF Len(DdlIdList(sql_data)) # Len(ddl_data)
        THEN [raised |-> "ValueError", ret |-> None, df |-> df, collections |-> coll,
              calls |-> calls]
        ELSE TrainingDataTail(coll, df \o DdlRows(DdlIdList(sql_data), ddl_data), calls)

\* get_training_data; df is the table built when the operation ends, also
\* when it ends by an exception.
get_training_data(coll) ==
    LET sql_data == _get_all_points(coll[SQL_COLLECTION_NAME])
    IN  TrainingDataDdl(coll, sql_data,
                        IF sql_data # <<>> THEN SqlRows(sql_data) ELSE <<>>,
                        <<ScrollCall(SQL_COLLECTION_NAME), ScrollCall(DDL_COLLECTION_NAME)>>)

\* remove_training_data: False when parsing raises ValueError; after a
\* delete the function ends without a return statement.
remove_training_data(coll, id) ==
    LET parsed == _parse_point_id(id)
    IN  IF parsed.raised = "ValueError"
        THEN [raised |-> "", ret |-> "False", collections |-> coll, calls |-> <<>>]
        ELSE [raised |-> "", ret |-> "None",
              collections |-> [coll EXCEPT ![parsed.collection_name] = Delete(@, parsed.id)],
              calls |-> << <<"delete", parsed.collection_name>> >>]

\* The three retrieval operations: the set of possible outcomes, one per
\* ranked result the backend may give.
\* get_similar_question_sql searching without the limit
get_similar_question_sql_unlimited(coll, n, question) ==
    {[raised |-> "",
      ret |-> [i \in 1..Len(results) |-> results[i].payload],
      collections |-> coll,
      calls |-> << <<"search", SQL_COLLECTION_NAME>> >>] :
        results \in Search(coll[SQL_COLLECTION_NAME], generate_embedding(question),
                           Cardinality(coll[SQL_COLLECTION_NAME]))}

get_similar_question_sql(coll, n, question) ==
    {[raised |-> "",
      ret |-> [i \in 1..Len(results) |-> results[i].payload],
      collections |-> coll,
      calls |-> << <<"search", SQL_COLLECTION_NAME>> >>] :
        results \in Search(coll[SQL_COLLECTION_NAME], generate_embedding(question), n)}

get_related_ddl(coll, n, question) ==
    {[raised |-> "",
      ret |-> [i \in 1..Len(results) |-> results[i].payload.ddl],
      collections |-> coll,
      calls |-> << <<"search", DDL_COLLECTION_NAME>> >>] :
        results \in Search(coll[DDL_COLLECTION_NAME], generate_embedding(question), n)}

get_related_documentation(coll, n, question) ==
    {[raised |-> "",
      ret |-> [i \in 1..Len(results) |-> results[i].payload.documentation],
      collections |-> coll,
      calls |-> << <<"search", DOCUMENTATION_COLLECTION_NAME>> >>] :
        results \in Search(coll[DOCUMENTATION_COLLECTION_NAME],
                           generate_embedding(question), n)}

\* the call self.generate_embedding("ABCDEF") as it stands in a log of calls
ProbeCall == <<"generate_embedding", "ABCDEF">>

\* a block that creates its collection without asking whether it exists
SetupOne_always_create(st, name) ==
    [exists |-> st.exists \cup {name},
     collections |-> [st.collections EXCEPT ![name] = {}],
     dimension |-> IF st.dimension = <<>> THEN <<ProbeDimension>> ELSE st.dimension,
     calls |-> st.calls \o (IF st.dimension = <<>> THEN <<ProbeCall>> ELSE <<>>)
                  \o << <<"create_collection", name>> >>]

\* a block that computes the probe embedding at every creation
SetupOne_uncached(st, name) ==
    IF name \in st.exists
    THEN [st EXCEPT !.calls = Append(@, <<"collection_exists", name>>)]
    ELSE [exists |-> st.exists \cup {name},
          collections |-> [st.collections EXCEPT ![name] = {}],
          dimension |-> <<ProbeDimension>>,
          calls |-> st.calls \o << <<"collection_exists", name>>, ProbeCall,
                                   <<"create_collection", name>> >>]

\* One of the three blocks of _setup_collections, on a record
\* [exists, collections, dimension, calls]; dimension is the cached property
\* embeddings_dimension, <<>> until first read.
SetupOne(st, name) ==
    IF name \in st.exists
    THEN [st EXCEPT !.calls = Append(@, <<"collection_exists", name>>)]
    ELSE [exists |-> st.exists \cup {name},
          collections |-> [st.collections EXCEPT ![name] = {}],
          dimension |-> IF st.dimension = <<>> THEN <<ProbeDimension>> ELSE st.dimension,
          calls |-> st.calls \o << <<"collection_exists", name>> >>
                       \o (IF st.dimension = <<>> THEN <<ProbeCall>> ELSE <<>>)
                       \o << <<"create_collection", name>> >>]

_setup_collections(st) ==
    SetupOne(SetupOne(SetupOne(st, SQL_COLLECTION_NAME), DDL_COLLECTION_NAME),
             DOCUMENTATION_COLLECTION_NAME)

\* a reset that drops every collection before setting them up again
remove_collection_dropping_all(st, collection_name) ==
    IF collection_name \in ID_SUFFIXES_keys
    THEN LET after == _setup_collections(
                          [exists |-> {},
                           collections |-> [name \in CollectionNames |-> {}],
                           dimension |-> st.dimension,
                           calls |-> << <<"delete_collection", collection_name>> >>])
         IN  [raised |-> "", ret |-> "True", exists |-> after.exists,
              collections |-> after.collections, dimension |-> after.dimension,
              calls |-> after.calls]
    ELSE [raised |-> "", ret |-> "False", exists |-> st.exists,
          collections |-> st.collections, dimension |-> st.dimension, calls |-> <<>>]

\* a reset that does not look the name up
remove_collection_unguarded(st, collection_name) ==
    LET after == _setup_collections(
                     [exists |-> st.exists \ {collection_name},
                      collections |-> [name \in CollectionNames |->
                                          IF name = collection_name THEN {}
                                          ELSE st.collections[name]],
                      dimension |-> st.dimension,
                      calls |-> << <<"delete_collection", collection_name>> >>])
    IN  [raised |-> "", ret |-> "True", exists |-> after.exists,
         collections |-> after.collections, dimension |-> after.dimension,
         calls |-> after.calls]

\* a reset that drops and does not set up again
remove_collection_without_setup(st, collection_name) ==
    IF collection_name \in ID_SUFFIXES_keys
    THEN [raised |-> "", ret |-> "True", exists |-> st.exists \ {collection_name},
          collections |-> [st.collections EXCEPT ![collection_name] = {}],
          dimension |-> st.dimension,
          calls |-> << <<"delete_collection", collection_name>> >>]
    ELSE [raised |-> "", ret |-> "False", exists |-> st.exists,
          collections |-> st.collections, dimension |-> st.dimension, calls |-> <<>>]

\* remove_collection: drop and recreate a known collection.
remove_collection(st, collection_name) ==
    IF collection_name \in ID_SUFFIXES_keys
    THEN LET dropped == [exists |-> st.exists \ {collection_name},
                         collections |-> [st.collections EXCEPT ![collection_name] = {}],
                         dimension |-> st.dimension,
                         calls |-> << <<"delete_collection", collection_name>> >>]
             after == _setup_collections(dropped)
         IN  [raised |-> "", ret |-> "True", exists |-> after.exists,
              collections |-> after.collections, dimension |-> after.dimension,
              calls |-> after.calls]
    ELSE [raised |-> "", ret |-> "False", exists |-> st.exists,
          collections |-> st.collections, dimension |-> st.dimension, calls |-> <<>>]

\* config.get("client"): absent, a QdrantClient, or an object of another type
ClientChoices == {"None", "QdrantClient", "str"}

\* a constructor that sets the collections up before it looks at the client
__init___checking_late(client, backend) ==
    LET st == _setup_collections([exists |-> backend.exists,
                                  collections |-> backend.collections,
                                  dimension |-> <<>>, calls |-> <<>>])
    IN  [raised |-> IF client # "None" /\ client # "QdrantClient" THEN "TypeError" ELSE "",
         exists |-> st.exists, collections |-> st.collections,
         dimension |-> st.dimension, calls |-> st.calls]

\* __init__ on a backend [exists, collections]: take or build the client, or
\* raise TypeError for a client of another type; then set the collections up.
\* The new object has read no embeddings_dimension yet.
__init__(client, backend) ==
    IF client # "None" /\ client # "QdrantClient"
    THEN [raised |-> "TypeError", exists |-> backend.exists,
          collections |-> backend.collections, dimension |-> <<>>, calls |-> <<>>]
    ELSE LET st == _setup_collections([exists |-> backend.exists,
                                       collections |-> backend.collections,
                                       dimension |-> <<>>, calls |-> <<>>])
         IN  [raised |-> "", exists |-> st.exists, collections |-> st.collections,
              dimension |-> st.dimension, calls |-> st.calls]

\* whether a log of calls has a collection created
CreatesIn(calls) ==
    \E i \in 1..Len(calls) : calls[i][1] = "create_collection"

\* the number of times a log of calls has the probe embedding computed
RECURSIVE ProbesIn(_)
ProbesIn(calls) ==
    IF calls = <<>> THEN 0
    ELSE (IF Head(calls) = ProbeCall THEN 1 ELSE 0) + ProbesIn(Tail(calls))

\* ------------------------------------------------------------------ state
VARIABLES
    exists,                 \* backend: the names of the existing collections
    collections,            \* backend: collection name -> set of points
    n_results,              \* self.n_results
    embeddings_dimension,   \* the cached property: <<>> or <<length>>
    added,                  \* history: the add_* calls that ran, no call failing under them,
                            \* on a collection since it was created
    last,                   \* history: the operation completed last, with the collections
                            \* that existed and their contents before it, and the table it built
    constructed,            \* whether a store object exists (__init__ has returned)
    probes,                 \* history: the probe embeddings the store object has computed
    created                 \* history: whether the store object has created a collection

\* one run of _get_all_points against a backend that pages as it likes
VARIABLES
    scanned,                \* backend: the points of the collection being listed
    backend_mode,           \* backend: "paging" (cursors resume the scan) or "misbehaving"
    results,                \* _get_all_points: results
    next_offset,            \* _get_all_points: next_offset
    stop_scrolling,         \* _get_all_points: stop_scrolling
    page,                   \* history: the answer to the scroll call made last
    empty_seen              \* history: an empty page came with a cursor that is not the sentinel

\* two store objects on one backend, each inside one add_ddl or add_documentation
VARIABLES
    call,                   \* per store object: the operation it runs and its argument
    pc,                     \* per store object: how far the operation has come
    point,                  \* per store object: the PointStruct it has built, vector included
    returned                \* per store object: the value its operation returned

storeVars == <<exists, collections, n_results, embeddings_dimension, added, last>>

lifeVars == <<constructed, probes, created>>

scrollVars == <<scanned, backend_mode, results, next_offset, stop_scrolling, page, empty_seen>>

\* the environment of one operation
VARIABLES
    fault                   \* which call failed in the operation completed last:
                            \* "none", "embedding" or "backend"

\* the web application: its cache
VARIABLES
    cache,                  \* MemoryCache.cache of the default cache object: the entries
                            \* [id, fields] in the order their ids were first set
    shadow,                 \* history: (id, field) -> the value set last and not deleted since
    got                     \* history: the cache operation made last and what it returned

cacheVars == <<cache, shadow, got>>

\* the web application: one VannaFlaskApp serving requests
VARIABLES
    vanna_app,              \* self.allow_llm_to_see_data and vn.run_sql_is_set
    issued,                 \* history: the ids /generate_sql has returned
    ran,                    \* history: the ids /run_sql has answered with type "df"
    charted,                \* history: the ids /generate_plotly_figure has answered
                            \* with type "plotly_figure"
    resp                    \* history: the request served last and its response

appVars == <<vanna_app, issued, ran, charted, resp>>

\* the web application: two VannaFlaskApp objects in one process
VARIABLES
    app_cache,              \* for each application, which cache object its cache
                            \* argument is: "default" (the MemoryCache() of the
                            \* signature), "own" (one passed by the caller), or
                            \* "none" while the application is not constructed
    own,                    \* MemoryCache.cache of the cache object passed to each
    issued_by,              \* history: the ids /generate_sql of each has returned
    seen                    \* history: the request served last and its response

twoVars == <<app_cache, own, issued_by, seen>>

\* the VannaDB store
VARIABLES
    training,               \* the training data the service holds
    related_training_data,  \* self.related_training_data
    reply                   \* history: the call made last and what it returned

vdbVars == <<training, related_training_data, reply>>

\* what the operations on a bare MemoryCache leave alone
webVars == <<appVars, twoVars, vdbVars>>

servingVars == <<cacheVars, webVars>>

concVars == <<call, pc, point, returned>>

\* the state of the Qdrant store and its operations
qdrantVars == <<storeVars, lifeVars, scrollVars, concVars, fault>>

\* what the operations of a constructed store leave alone
otherVars == <<scrollVars, concVars, fault, servingVars>>

vars == <<storeVars, lifeVars, otherVars>>

\* no listing under way
ScrollIdle ==
    /\ scanned = {}
    /\ backend_mode = "paging"
    /\ results = <<>>
    /\ next_offset = None
    /\ stop_scrolling = TRUE
    /\ page = [records |-> <<>>, next_offset |-> None]
    /\ empty_seen = FALSE

\* ---------------------------------------------------------- MemoryCache
\* the fields the handlers cache under an id
Fields == {"question", "sql", "df", "fig_json", "summary", "followup_questions"}

\* the mark of a field that is not set, in the history of a cache
Absent == <<"absent">>

\* id in self.cache
InCache(c, id) == \E k \in 1..Len(c) : c[k].id = id

EntryOf(c, id) == c[CHOOSE k \in 1..Len(c) : c[k].id = id]

\* a set that forgets the other fields of the id
MemoryCache_set_replacing(c, id, field, value) ==
    IF InCache(c, id)
    THEN [k \in 1..Len(c) |-> IF c[k].id = id
                               THEN [id |-> id, fields |-> (field :> value)]
                               ELSE c[k]]
    ELSE Append(c, [id |-> id, fields |-> (field :> value)])

\* MemoryCache.set
MemoryCache_set(c, id, field, value) ==
    LET c1 == IF InCache(c, id) THEN c ELSE Append(c, [id |-> id, fields |-> <<>>])
    IN  [k \in 1..Len(c1) |->
            IF c1[k].id = id
            THEN [id |-> id,
                  fields |-> [f \in (DOMAIN c1[k].fields) \cup {field} |->
                                 IF f = field THEN value ELSE c1[k].fields[f]]]
            ELSE c1[k]]

\* MemoryCache.get
MemoryCache_get(c, id, field) ==
    IF ~InCache(c, id) THEN None
    ELSE IF field \notin DOMAIN EntryOf(c, id).fields THEN None
    ELSE EntryOf(c, id).fields[field]

\* MemoryCache.get_all: one dict per key of self.cache, in the order of the keys
MemoryCache_get_all(c, field_list) ==
    [k \in 1..Len(c) |->
        [id |-> c[k].id,
         values |-> [f \in {field_list[i] : i \in 1..Len(field_list)} |->
                        MemoryCache_get(c, c[k].id, f)]]]

\* MemoryCache.delete
MemoryCache_delete(c, id) ==
    LET Keep(e) == e.id # id
    IN  SelectSeq(c, Keep)

\* no cache operation made
CacheIdle ==
    /\ cache = <<>>
    /\ shadow = <<>>
    /\ got = [op |-> "none", id |-> None, field |-> None, ret |-> None]

\* no request served
NoRequest ==
    [route |-> "none", logged_in |-> FALSE, id_from |-> "none", req_id |-> None,
     type |-> "none",
     error |-> "", id |-> None, body |-> FALSE, vn_calls |-> <<>>, changed |-> FALSE]

AppIdle ==
    /\ vanna_app = [allow_llm_to_see_data |-> FALSE, run_sql_is_set |-> FALSE]
    /\ issued = {}
    /\ ran = {}
    /\ charted = {}
    /\ resp = NoRequest

Apps == {1, 2}

NothingSeen == [app |-> 0, route |-> "none", type |-> "none", id |-> None, questions |-> <<>>]

TwoIdle ==
    /\ app_cache = [a \in Apps |-> "none"]
    /\ own = [a \in Apps |-> <<>>]
    /\ issued_by = [a \in Apps |-> {}]
    /\ seen = NothingSeen

NoTraining == [sql |-> {}, ddl |-> {}, documentation |-> {}]

NoReply == [op |-> "none", question |-> None, ret |-> None, raised |-> "", cached |-> FALSE]

VdbIdle ==
    /\ training = NoTraining
    /\ related_training_data = <<>>
    /\ reply = NoReply

WebIdle == AppIdle /\ TwoIdle /\ VdbIdle

ServingIdle == CacheIdle /\ WebIdle

\* the store objects that run side by side
Stores == {1, 2}

\* no operation of a second store object under way
ConcIdle ==
    /\ call = [self \in Stores |-> [op |-> "none", arg |-> None]]
    /\ pc = [self \in Stores |-> "idle"]
    /\ point = [self \in Stores |-> None]
    /\ returned = [self \in Stores |-> None]
    /\ fault = "none"

\* config.get("n_results", 10)
NResultsChoices == {1, DefaultNResults}

SqlPoints == {SqlPoint(e[1], e[2]) : e \in SqlExamples}

\* What the backend holds before the store is constructed on it: nothing, or
\* a collection of SQL examples written earlier through the same scheme.
InitialBackends ==
    {[exists |-> ex,
      collections |-> [name \in CollectionNames |->
                          IF name = SQL_COLLECTION_NAME THEN sqls ELSE {}]] :
        ex \in SUBSET {SQL_COLLECTION_NAME},
        sqls \in SUBSET SqlPoints}

OpRecord(op, arg, r, before) ==
    [op |-> op, arg |-> arg, raised |-> r.raised, ret |-> r.ret,
     calls |-> r.calls, before |-> before, existed |-> exists, df |-> <<>>]

\* __init__: take the client, read n_results, set the collections up.
Init ==
    \E b \in {x \in InitialBackends :
                x.collections[SQL_COLLECTION_NAME] # {} => SQL_COLLECTION_NAME \in x.exists},
       n \in NResultsChoices,
       client \in {"None", "QdrantClient"} :
        LET st == __init__(client, b)
        IN  /\ exists = st.exists
            /\ collections = st.collections
            /\ embeddings_dimension = st.dimension
            /\ n_results = n
            /\ added = {}
            /\ last = [op |-> "__init__", arg |-> None, raised |-> "", ret |-> None,
                       calls |-> st.calls, before |-> b.collections, existed |-> b.exists,
                       df |-> <<>>]
            /\ constructed = TRUE
            /\ probes = ProbesIn(st.calls)
            /\ created = CreatesIn(st.calls)
            /\ ScrollIdle
            /\ ConcIdle
            /\ ServingIdle

AddLog(op, arg, r) == added \cup {[op |-> op, arg |-> arg, raised |-> r.raised, ret |-> r.ret]}

\* the pairs passed to add_question_sql
NewSqlExamples == {<<Text(1), Text(1)>>}

AddQuestionSql ==
    \E e \in NewSqlExamples :
        LET r == add_question_sql(collections, e[1], e[2])
        IN  /\ collections' = r.collections
            /\ added' = AddLog("add_question_sql", e, r)
            /\ last' = OpRecord("add_question_sql", e, r, collections)
            /\ UNCHANGED <<exists, n_results, embeddings_dimension, lifeVars, otherVars>>

AddDdl ==
    \E ddl \in Texts :
        LET r == add_ddl(collections, ddl)
        IN  /\ collections' = r.collections
            /\ added' = AddLog("add_ddl", ddl, r)
            /\ last' = OpRecord("add_ddl", ddl, r, collections)
            /\ UNCHANGED <<exists, n_results, embeddings_dimension, lifeVars, otherVars>>

AddDocumentation ==
    \E documentation \in Texts :
        LET r == add_documentation(collections, documentation)
        IN  /\ collections' = r.collections
            /\ added' = AddLog("add_documentation", documentation, r)
            /\ last' = OpRecord("add_documentation", documentation, r, collections)
            /\ UNCHANGED <<exists, n_results, embeddings_dimension, lifeVars, otherVars>>

GetTrainingData ==
    LET r == get_training_data(collections)
    IN  /\ collections' = r.collections
        /\ last' = [OpRecord("get_training_data", None, r, collections) EXCEPT !.df = r.df]
        /\ UNCHANGED <<exists, n_results, embeddings_dimension, added, lifeVars, otherVars>>

\* ids a caller may pass to remove_training_data: ids that add_* returns,
\* a well-formed id of an artifact never stored, and malformed ids
RemoveIds ==
    {_format_point_id(deterministic_uuid(Text(1)), k) :
        k \in {DDL_COLLECTION_NAME, DOCUMENTATION_COLLECTION_NAME}}
    \cup {_format_point_id(SqlPoint(e[1], e[2]).id, SQL_COLLECTION_NAME) : e \in NewSqlExamples}
    \cup {<<"x", "-", "s", "q", "l">>,
          <<"u", "1">>,
          <<"u", "-", "1">>,
          <<"u", "-", "1", "-">>,
          <<"u", "-", "1", "-", "d", "d", "l", "x">>}

RemoveTrainingData ==
    \E id \in RemoveIds :
        LET r == remove_training_data(collections, id)
        IN  /\ collections' = r.collections
            /\ last' = OpRecord("remove_training_data", id, r, collections)
            /\ UNCHANGED <<exists, n_results, embeddings_dimension, added, lifeVars, otherVars>>

AddOpOf(name) ==
    IF name = SQL_COLLECTION_NAME THEN "add_question_sql"
    ELSE IF name = DDL_COLLECTION_NAME THEN "add_ddl"
    ELSE "add_documentation"

RemoveCollectionArgs == CollectionNames \cup {"doc", "questions"}

RemoveCollection ==
    \E name \in RemoveCollectionArgs :
        LET r == remove_collection([exists |-> exists, collections |-> collections,
                                    dimension |-> embeddings_dimension, calls |-> <<>>],
                                   name)
        IN  /\ constructed
            /\ exists' = r.exists
            /\ collections' = r.collections
            /\ embeddings_dimension' = r.dimension
            /\ probes' = probes + ProbesIn(r.calls)
            /\ created' = (created \/ CreatesIn(r.calls))
            /\ added' = IF r.ret = "True"
                        THEN {a \in added : a.op # AddOpOf(name)}
                        ELSE added
            /\ last' = OpRecord("remove_collection", name, r, collections)
            /\ UNCHANGED <<n_results, constructed, otherVars>>

GetSimilarQuestionSql ==
    \E question \in Texts :
        \E r \in get_similar_question_sql(collections, n_results, question) :
            /\ last' = OpRecord("get_similar_question_sql", question, r, collections)
            /\ UNCHANGED <<exists, collections, n_results, embeddings_dimension, added, lifeVars, otherVars>>

GetRelatedDdl ==
    \E question \in Texts :
        \E r \in get_related_ddl(collections, n_results, question) :
            /\ last' = OpRecord("get_related_ddl", question, r, collections)
            /\ UNCHANGED <<exists, collections, n_results, embeddings_dimension, added, lifeVars, otherVars>>

GetRelatedDocumentation ==
    \E question \in Texts :
        \E r \in get_related_documentation(collections, n_results, question) :
            /\ last' = OpRecord("get_related_documentation", question, r, collections)
            /\ UNCHANGED <<exists, collections, n_results, embeddings_dimension, added, lifeVars, otherVars>>

Next ==
    \/ AddQuestionSql
    \/ AddDdl
    \/ AddDocumentation
    \/ GetTrainingData
    \/ RemoveTrainingData
    \/ RemoveCollection
    \/ GetSimilarQuestionSql
    \/ GetRelatedDdl
    \/ GetRelatedDocumentation

Spec == Init /\ [][Next]_vars

\* ------------------------------------------------- the listing loop, stepwise
\* a store constructed on an empty backend, with no operation under way
StoreIdle ==
    /\ exists = CollectionNames
    /\ collections = [name \in CollectionNames |-> {}]
    /\ n_results = DefaultNResults
    /\ embeddings_dimension = <<ProbeDimension>>
    /\ added = {}
    /\ last = [op |-> "__init__", arg |-> None, raised |-> "", ret |-> None,
               calls |-> <<>>, before |-> [name \in CollectionNames |-> {}],
               existed |-> {}, df |-> <<>>]
    /\ constructed = TRUE
    /\ probes = 1
    /\ created = TRUE

\* the collections a listing runs over
ScanTexts == {Text(i) : i \in 1..MaxScanned}

ScanCollections ==
    (SUBSET {DdlPoint(t) : t \in ScanTexts}) \cup (SUBSET {DocPoint(t) : t \in ScanTexts})

\* client.scroll(collection_name, limit, offset) as a backend may answer it.
\* A paging backend returns the next records in id order, as many as it
\* likes up to limit (possibly none), with the id of the first record not yet
\* returned as cursor, and a no-more-data sentinel with the last records.  A
\* misbehaving backend returns a cursor every time, never a sentinel.
ScrollAnswers(mode, points, limit, offset) ==
    LET from == IF offset = None THEN InIdOrder(points)
                ELSE InIdOrder({p \in points : ~IdLess(p.id, offset)})
        most == IF Len(from) > limit THEN limit ELSE Len(from)
    IN  IF mode = "paging"
        THEN {[records |-> SubSeq(from, 1, k),
               next_offset |-> IF k < Len(from) THEN from[k + 1].id ELSE sentinel] :
                 k \in 0..most, sentinel \in {None, GrpcEmptyPointId}}
        ELSE {[records |-> <<>>, next_offset |-> p.id] : p \in {q \in points : q.id # offset}}

ScrollInit ==
    /\ StoreIdle
    /\ ConcIdle
    /\ ServingIdle
    /\ scanned \in ScanCollections
    /\ backend_mode \in {"paging", "misbehaving"}
    /\ backend_mode = "misbehaving" => Cardinality(scanned) >= 2
    /\ results = <<>>
    /\ next_offset = None
    /\ stop_scrolling = FALSE
    /\ page = [records |-> <<>>, next_offset |-> None]
    /\ empty_seen = FALSE

\* one iteration of "while not stop_scrolling"
ScrollStep ==
    /\ ~stop_scrolling
    /\ \E answer \in ScrollAnswers(backend_mode, scanned, SCROLL_SIZE, next_offset) :
          LET it == ScrollIteration(results, answer)
          IN  /\ results' = it.results
              /\ next_offset' = it.next_offset
              /\ stop_scrolling' = it.stop_scrolling
              /\ page' = answer
              /\ empty_seen' = (empty_seen \/ (answer.records = <<>>
                                                /\ ~IsNoMoreData(answer.next_offset)))
    /\ UNCHANGED <<scanned, backend_mode, storeVars, lifeVars, concVars, fault, servingVars>>

ScrollNext == ScrollStep

\* the loop runs on while it has not stopped
ScrollSpec == ScrollInit /\ [][ScrollNext]_vars /\ WF_vars(ScrollStep)

\* ------------------------------------------- construction on any backend
\* What a backend may hold when a store is constructed on it: any of the
\* three collections, each with points written through the same scheme.
AnyBackends ==
    {b \in [exists : SUBSET CollectionNames,
            collections : [CollectionNames -> SUBSET (SqlPoints \cup {DdlPoint(Text(1)),
                                                                     DocPoint(Text(1))})]] :
        /\ b.collections[SQL_COLLECTION_NAME] \subseteq SqlPoints
        /\ b.collections[DDL_COLLECTION_NAME] \subseteq {DdlPoint(Text(1))}
        /\ b.collections[DOCUMENTATION_COLLECTION_NAME] \subseteq {DocPoint(Text(1))}
        /\ \A name \in CollectionNames : b.collections[name] # {} => name \in b.exists}

\* a backend and no store object yet
LifecycleInit ==
    /\ \E b \in AnyBackends :
          /\ exists = b.exists
          /\ collections = b.collections
          /\ last = [op |-> "none", arg |-> None, raised |-> "", ret |-> None,
                     calls |-> <<>>, before |-> b.collections, existed |-> b.exists,
                     df |-> <<>>]
    /\ n_results = DefaultNResults
    /\ embeddings_dimension = <<>>
    /\ added = {}
    /\ constructed = FALSE
    /\ probes = 0
    /\ created = FALSE
    /\ ScrollIdle
    /\ ConcIdle
    /\ ServingIdle

\* Qdrant_VectorStore(config) on the backend as it is now; the object made
\* replaces the one the model follows
Construct ==
    \E client \in ClientChoices, n \in NResultsChoices :
        LET r == __init__(client, [exists |-> exists, collections |-> collections])
        IN  /\ last' = [op |-> "__init__", arg |-> client, raised |-> r.raised, ret |-> None,
                        calls |-> r.calls, before |-> collections, existed |-> exists,
                        df |-> <<>>]
            /\ exists' = r.exists
            /\ collections' = r.collections
            /\ IF r.raised = ""
               THEN /\ embeddings_dimension' = r.dimension
                    /\ probes' = ProbesIn(r.calls)
                    /\ created' = CreatesIn(r.calls)
                    /\ n_results' = n
                    /\ added' = {}
                    /\ constructed' = TRUE
               ELSE UNCHANGED <<embeddings_dimension, probes, created, n_results, added,
                                constructed>>
            /\ UNCHANGED otherVars

LifecycleNext ==
    \/ Construct
    \/ RemoveCollection

LifecycleSpec == LifecycleInit /\ [][LifecycleNext]_vars

\* ------------------------------------------------ two stores, one backend
\* the operations run side by side
ConcurrentOps == {"add_ddl", "add_documentation"}

CollectionOf(op) ==
    IF op = "add_ddl" THEN DDL_COLLECTION_NAME ELSE DOCUMENTATION_COLLECTION_NAME

\* a point whose id also depends on the store object that built it
ConcurrentPoint_per_instance(self, op, text) ==
    LET p == IF op = "add_ddl" THEN DdlPoint(text) ELSE DocPoint(text)
    IN  [p EXCEPT !.id = @ \o <<"-", Digits[self]>>]

\* id = deterministic_uuid(text) and the PointStruct with the embedding of
\* text, as store object self builds them
ConcurrentPoint(self, op, text) ==
    IF op = "add_ddl" THEN DdlPoint(text) ELSE DocPoint(text)

ConcInit ==
    /\ exists = CollectionNames
    /\ \E ddls \in SUBSET {DdlPoint(Text(1))} :
          /\ collections = [name \in CollectionNames |->
                               IF name = DDL_COLLECTION_NAME THEN ddls ELSE {}]
          /\ last = [op |-> "__init__", arg |-> None, raised |-> "", ret |-> None,
                     calls |-> <<>>, before |-> collections, existed |-> CollectionNames,
                     df |-> <<>>]
    /\ n_results = DefaultNResults
    /\ embeddings_dimension = <<>>
    /\ added = {}
    /\ constructed = TRUE
    /\ probes = 0
    /\ created = FALSE
    /\ ScrollIdle
    /\ call \in [Stores -> [op : ConcurrentOps, arg : Texts]]
    /\ pc = [self \in Stores |-> "start"]
    /\ point = [self \in Stores |-> None]
    /\ returned = [self \in Stores |-> None]
    /\ fault = "none"
    /\ ServingIdle

\* id = deterministic_uuid(...) and vector = self.generate_embedding(...)
Embed(self) ==
    /\ pc[self] = "start"
    /\ point' = [point EXCEPT ![self] = ConcurrentPoint(self, call[self].op, call[self].arg)]
    /\ pc' = [pc EXCEPT ![self] = "embedded"]
    /\ UNCHANGED <<storeVars, lifeVars, scrollVars, call, returned, fault, servingVars>>

\* self._client.upsert(NAME, points=[...])
UpsertPoint(self) ==
    /\ pc[self] = "embedded"
    /\ collections' = [collections EXCEPT ![CollectionOf(call[self].op)] =
                                              Upsert(@, point[self])]
    /\ pc' = [pc EXCEPT ![self] = "upserted"]
    /\ UNCHANGED <<exists, n_results, embeddings_dimension, added, last,
                   lifeVars, scrollVars, call, point, returned, fault, servingVars>>

\* return self._format_point_id(id, NAME)
Return(self) ==
    /\ pc[self] = "upserted"
    /\ returned' = [returned EXCEPT ![self] =
                       _format_point_id(point[self].id, CollectionOf(call[self].op))]
    /\ pc' = [pc EXCEPT ![self] = "returned"]
    /\ UNCHANGED <<storeVars, lifeVars, scrollVars, call, point, fault, servingVars>>

ConcNext ==
    \E self \in Stores :
        \/ Embed(self)
        \/ UpsertPoint(self)
        \/ Return(self)

ConcSpec == ConcInit /\ [][ConcNext]_vars

\* ------------------------------------------------- operations under faults
\* what may go wrong in one operation: nothing, the call of the embedding
\* model inside generate_embedding, or the call of the backend
Faults == {"none", "embedding", "backend"}

\* an add that calls upsert a second time when the first call fails
AddUnderFault_retrying(coll, name, done, f) ==
    IF f = "none" THEN {done}
    ELSE IF f = "embedding"
    THEN {[raised |-> "embedding failure", ret |-> None, collections |-> coll,
           calls |-> <<>>]}
    ELSE {[done EXCEPT !.calls = << <<"upsert", name>>, <<"upsert", name>> >>]}

\* add_ddl / add_documentation on collection name when call f fails, done
\* being the outcome without a fault.  The vector is computed while the
\* arguments of upsert are evaluated, so a failing embedding leaves the
\* backend uncalled; a failing upsert may or may not have written the point.
\* Nothing catches either exception.
AddUnderFault(coll, name, done, f) ==
    IF f = "none" THEN {done}
    ELSE IF f = "embedding"
    THEN {[raised |-> "embedding failure", ret |-> None, collections |-> coll,
           calls |-> <<>>]}
    ELSE {[raised |-> "backend failure", ret |-> None, collections |-> c,
           calls |-> << <<"upsert", name>> >>] : c \in {coll, done.collections}}

\* a get_* on collection name when call f fails, done being the outcomes
\* without a fault
SearchUnderFault(coll, name, done, f) ==
    IF f = "none" THEN done
    ELSE IF f = "embedding"
    THEN {[raised |-> "embedding failure", ret |-> None, collections |-> coll,
           calls |-> <<>>]}
    ELSE {[raised |-> "backend failure", ret |-> None, collections |-> coll,
           calls |-> << <<"search", name>> >>]}

\* the texts and questions passed to the operations that meet a fault
FaultTexts == {Text(1)}

AddDdlUnderFault ==
    \E ddl \in FaultTexts, f \in Faults :
        \E r \in AddUnderFault(collections, DDL_COLLECTION_NAME,
                               add_ddl(collections, ddl), f) :
            /\ collections' = r.collections
            /\ added' = IF f = "none" THEN AddLog("add_ddl", ddl, r) ELSE added
            /\ last' = OpRecord("add_ddl", ddl, r, collections)
            /\ fault' = f
            /\ UNCHANGED <<exists, n_results, embeddings_dimension, lifeVars,
                           scrollVars, concVars, servingVars>>

AddDocumentationUnderFault ==
    \E documentation \in FaultTexts, f \in Faults :
        \E r \in AddUnderFault(collections, DOCUMENTATION_COLLECTION_NAME,
                               add_documentation(collections, documentation), f) :
            /\ collections' = r.collections
            /\ added' = IF f = "none"
                        THEN AddLog("add_documentation", documentation, r)
                        ELSE added
            /\ last' = OpRecord("add_documentation", documentation, r, collections)
            /\ fault' = f
            /\ UNCHANGED <<exists, n_results, embeddings_dimension, lifeVars,
                           scrollVars, concVars, servingVars>>

GetSimilarQuestionSqlUnderFault ==
    \E question \in FaultTexts, f \in Faults :
        \E r \in SearchUnderFault(collections, SQL_COLLECTION_NAME,
                       get_similar_question_sql(collections, n_results, question), f) :
            /\ last' = OpRecord("get_similar_question_sql", question, r, collections)
            /\ fault' = f
            /\ UNCHANGED <<exists, collections, n_results, embeddings_dimension, added,
                           lifeVars, scrollVars, concVars, servingVars>>

GetRelatedDdlUnderFault ==
    \E question \in FaultTexts, f \in Faults :
        \E r \in SearchUnderFault(collections, DDL_COLLECTION_NAME,
                       get_related_ddl(collections, n_results, question), f) :
            /\ last' = OpRecord("get_related_ddl", question, r, collections)
            /\ fault' = f
            /\ UNCHANGED <<exists, collections, n_results, embeddings_dimension, added,
                           lifeVars, scrollVars, concVars, servingVars>>

GetRelatedDocumentationUnderFault ==
    \E question \in FaultTexts, f \in Faults :
        \E r \in SearchUnderFault(collections, DOCUMENTATION_COLLECTION_NAME,
                       get_related_documentation(collections, n_results, question), f) :
            /\ last' = OpRecord("get_related_documentation", question, r, collections)
            /\ fault' = f
            /\ UNCHANGED <<exists, collections, n_results, embeddings_dimension, added,
                           lifeVars, scrollVars, concVars, servingVars>>

FaultNext ==
    \/ AddDdlUnderFault
    \/ AddDocumentationUnderFault
    \/ GetSimilarQuestionSqlUnderFault
    \/ GetRelatedDdlUnderFault
    \/ GetRelatedDocumentationUnderFault

FaultSpec == Init /\ [][FaultNext]_vars

\* ------------------------------------------------- a MemoryCache in use
\* the ids, fields and values passed to the cache
CacheIds == {Text(i) : i \in 1..MaxCacheIds}

CacheFields == {"question", "sql"}

CacheValues == {Text(1), Text(2)}

\* a store with no operation under way, and an empty cache
CacheInit ==
    /\ StoreIdle
    /\ ScrollIdle
    /\ ConcIdle
    /\ WebIdle
    /\ cache = <<>>
    /\ shadow = [x \in CacheIds \X CacheFields |-> Absent]
    /\ got = [op |-> "none", id |-> None, field |-> None, ret |-> None]

CacheSet ==
    \E id \in CacheIds, field \in CacheFields, value \in CacheValues :
        /\ cache' = MemoryCache_set(cache, id, field, value)
        /\ shadow' = [shadow EXCEPT ![<<id, field>>] = value]
        /\ got' = [op |-> "set", id |-> id, field |-> field, ret |-> None]
        /\ UNCHANGED <<storeVars, lifeVars, scrollVars, concVars, fault, webVars>>

CacheGet ==
    \E id \in CacheIds, field \in CacheFields \cup {"df"} :
        /\ got' = [op |-> "get", id |-> id, field |-> field,
                   ret |-> MemoryCache_get(cache, id, field)]
        /\ UNCHANGED <<cache, shadow, storeVars, lifeVars, scrollVars, concVars, fault, webVars>>

CacheGetAll ==
    /\ got' = [op |-> "get_all", id |-> None, field |-> None,
               ret |-> MemoryCache_get_all(cache, <<"question">>)]
    /\ UNCHANGED <<cache, shadow, storeVars, lifeVars, scrollVars, concVars, fault, webVars>>

CacheDelete ==
    \E id \in CacheIds :
        /\ cache' = MemoryCache_delete(cache, id)
        /\ shadow' = [x \in CacheIds \X CacheFields |->
                         IF x[1] = id THEN Absent ELSE shadow[x]]
        /\ got' = [op |-> "delete", id |-> id, field |-> None, ret |-> None]
        /\ UNCHANGED <<storeVars, lifeVars, scrollVars, concVars, fault, webVars>>

CacheNext ==
    \/ CacheSet
    \/ CacheGet
    \/ CacheGetAll
    \/ CacheDelete

CacheSpec == CacheInit /\ [][CacheNext]_vars

\* --------------------------------------------------------- the web handlers
\* flask.request as a handler reads it: the id among the query arguments
\* (None when not given), the JSON body (NoBody, or its "id" and the "error"
\* or "sql" it carries, None when not given), the question among the query
\* arguments, and what self.auth.is_logged_in answers for its user.
NoBody == <<"no body">>

Outcome(type, error, id, c, body, vn_calls) ==
    [type |-> type, error |-> error, id |-> id, cache |-> c, body |-> body,
     vn_calls |-> vn_calls]

\* request.json on a request without a JSON body: None (and the AttributeError
\* of None.get, answered 500), or the 400 or 415 the framework raises,
\* depending on its version; in each case an error page of the framework
NoJsonBody(c) == {Outcome("http_error", "request.json", None, c, FALSE, <<>>)}

\* the first of the fields, in order, that has no value cached under id
RECURSIVE FirstMissing(_, _, _)
FirstMissing(c, id, fields) ==
    IF fields = <<>> THEN "none"
    ELSE IF MemoryCache_get(c, id, Head(fields)) = None THEN Head(fields)
    ELSE FirstMissing(c, id, Tail(fields))

\* the id requires_cache finds: request.args.get("id"), else
\* request.json.get("id")
RequestId(req) == IF req.args_id # None THEN req.args_id ELSE req.json_id

\* requires_cache(required_fields): the outcomes of the wrapper before the
\* body; type "pass" stands for calling the body with the id
requires_cache(c, required_fields, req) ==
    LET id == RequestId(req)
        missing == FirstMissing(c, id, required_fields)
    IN  IF req.args_id = None /\ req.json = NoBody THEN NoJsonBody(c)
        ELSE IF id = None
        THEN {Outcome("error", "No id provided", None, c, FALSE, <<>>)}
        ELSE IF missing # "none"
        THEN {Outcome("error", "No " \o missing \o " found", id, c, FALSE, <<>>)}
        ELSE {Outcome("pass", "", id, c, FALSE, <<>>)}

\* what vn answers: the SQL the LLM writes, the tables run_sql returns (one
\* of them with two columns of one name, which to_json(orient="records")
\* refuses with ValueError), a figure, a summary, follow-up questions
SqlTexts == {Text(1)}

Frame == <<"df">>

FrameWithDuplicateColumns == <<"df with duplicate columns">>

Frames == {Frame, FrameWithDuplicateColumns}

Figure == <<"fig_json">>

Summary == <<"summary">>

FollowupQuestions == <<"followup question">>

EmptyList == <<>>

\* df.head(10).to_json(orient="records", date_format="iso") raises
ToJsonRaises(df) == df = FrameWithDuplicateColumns

\* an exception of vn that no handler catches: the framework answers 500
Uncaught(c, id, vn_calls) == {Outcome("http_error", "vn", id, c, TRUE, vn_calls)}

\* body of generate_sql; id is what self.cache.generate_id returns
generate_sql(c, id, req) ==
    IF req.question = None
    THEN {Outcome("error", "No question provided", None, c, TRUE, <<>>)}
    ELSE LET vn_calls == << <<"generate_sql", req.question>> >>
         IN  {Outcome("sql", "", id,
                      MemoryCache_set(MemoryCache_set(c, id, "question", req.question),
                                      id, "sql", sql),
                      TRUE, vn_calls) : sql \in SqlTexts}
             \cup Uncaught(c, None, vn_calls)

\* a run_sql that drops the cached table when the query fails
run_sql_clearing(app, c, id) ==
    LET sql == MemoryCache_get(c, id, "sql")
        vn_calls == << <<"run_sql", sql>> >>
    IN  IF ~app.run_sql_is_set
        THEN {Outcome("error", "Please connect to a database", id, c, TRUE, <<>>)}
        ELSE {Outcome("sql_error", "vn.run_sql", id, MemoryCache_set(c, id, "df", None),
                      TRUE, vn_calls)}
             \cup {Outcome(IF ToJsonRaises(df) THEN "sql_error" ELSE "df",
                           IF ToJsonRaises(df) THEN "to_json" ELSE "",
                           id, MemoryCache_set(c, id, "df", df), TRUE, vn_calls) :
                       df \in Frames}

\* body of run_sql
run_sql(app, c, id) ==
    LET sql == MemoryCache_get(c, id, "sql")
        vn_calls == << <<"run_sql", sql>> >>
    IN  IF ~app.run_sql_is_set
        THEN {Outcome("error", "Please connect to a database", id, c, TRUE, <<>>)}
        ELSE {Outcome("sql_error", "vn.run_sql", id, c, TRUE, vn_calls)}
             \cup {Outcome(IF ToJsonRaises(df) THEN "sql_error" ELSE "df",
                           IF ToJsonRaises(df) THEN "to_json" ELSE "",
                           id, MemoryCache_set(c, id, "df", df), TRUE, vn_calls) :
                       df \in Frames}

\* body of fix_sql
fix_sql(c, id, req) ==
    IF req.json = NoBody THEN {[o EXCEPT !.body = TRUE, !.id = id] : o \in NoJsonBody(c)}
    ELSE IF req.payload = None
    THEN {Outcome("error", "No error provided", id, c, TRUE, <<>>)}
    ELSE LET vn_calls == << <<"generate_sql", <<"I have an error">> >> >>
         IN  {Outcome("sql", "", id, MemoryCache_set(c, id, "sql", fixed_sql),
                      TRUE, vn_calls) : fixed_sql \in SqlTexts}
             \cup Uncaught(c, id, vn_calls)

\* body of update_sql
update_sql(c, id, req) ==
    IF req.json = NoBody THEN {[o EXCEPT !.body = TRUE, !.id = id] : o \in NoJsonBody(c)}
    ELSE IF req.payload = None
    THEN {Outcome("error", "No sql provided", id, c, TRUE, <<>>)}
    ELSE {Outcome("sql", "", id, MemoryCache_set(c, id, "sql", req.payload), TRUE, <<>>)}

\* body of download_csv
download_csv(c, id) == {Outcome("csv", "", id, c, TRUE, <<>>)}

\* body of generate_plotly_figure
generate_plotly_figure(c, id) ==
    LET vn_calls == << <<"generate_plotly_code", MemoryCache_get(c, id, "question")>> >>
    IN  {Outcome("error", "plotly", id, c, TRUE, vn_calls),
         Outcome("plotly_figure", "", id, MemoryCache_set(c, id, "fig_json", Figure),
                 TRUE, vn_calls)}

\* a generate_followup_questions that asks the LLM whatever the setting
generate_followup_questions_always(app, c, id) ==
    LET vn_calls == << <<"generate_followup_questions", MemoryCache_get(c, id, "df")>> >>
    IN  {Outcome("question_list", "", id,
                 MemoryCache_set(c, id, "followup_questions", FollowupQuestions),
                 TRUE, vn_calls)}

\* body of generate_followup_questions
generate_followup_questions(app, c, id) ==
    IF app.allow_llm_to_see_data
    THEN LET vn_calls == << <<"generate_followup_questions",
                              MemoryCache_get(c, id, "df")>> >>
         IN  {Outcome("question_list", "", id,
                      MemoryCache_set(c, id, "followup_questions", FollowupQuestions),
                      TRUE, vn_calls)}
             \cup Uncaught(c, id, vn_calls)
    ELSE {Outcome("question_list", "", id,
                  MemoryCache_set(c, id, "followup_questions", EmptyList), TRUE, <<>>)}

\* body of generate_summary
generate_summary(app, c, id) ==
    IF app.allow_llm_to_see_data
    THEN LET vn_calls == << <<"generate_summary", MemoryCache_get(c, id, "df")>> >>
         IN  {Outcome("text", "", id, MemoryCache_set(c, id, "summary", Summary),
                      TRUE, vn_calls)}
             \cup Uncaught(c, id, vn_calls)
    ELSE {Outcome("text", "", id, c, TRUE, <<>>)}

\* body of load_question
load_question(c, id) ==
    IF ToJsonRaises(MemoryCache_get(c, id, "df"))
    THEN {Outcome("error", "to_json", id, c, TRUE, <<>>)}
    ELSE {Outcome("question_cache", "", id, c, TRUE, <<>>)}

\* body of get_question_history
get_question_history(c) == {Outcome("question_history", "", None, c, TRUE, <<>>)}

\* a wrapper that lets every user through
requires_auth_open(req, c, outcomes) == outcomes

\* requires_auth around a handler: outcomes is what the wrapped handler does
requires_auth(req, c, outcomes) ==
    IF ~req.logged_in
    THEN {Outcome("not_logged_in", "", None, c, FALSE, <<>>)}
    ELSE outcomes

\* requires_cache(required_fields) around a body: outcomes is what the body
\* does when called with the id of the request
Gated(c, required_fields, req, outcomes) ==
    LET gate == requires_cache(c, required_fields, req)
    IN  IF \E g \in gate : g.type = "pass" THEN outcomes ELSE gate

\* ------------------------------------------------- one application serving
\* the id a client makes up
Forged == <<"forged">>

\* the id self.cache.generate_id returns: a uuid4, new at every call
IssuedId(k) == <<"uuid4", Digits[k]>>

JsonBody == <<"json body">>

\* the requests a client can send when ids are the ids it knows or makes up
Requests(ids, questions, payloads) ==
    {r \in [logged_in : BOOLEAN, args_id : ids \cup {None}, json : {NoBody, JsonBody},
            json_id : ids \cup {None}, payload : payloads, question : questions] :
        /\ r.json = NoBody => r.json_id = None /\ r.payload = None
        /\ r.args_id # None => r.json_id = None}

\* where requires_cache finds the id of a request
IdFrom(req) ==
    IF req.args_id # None THEN "args"
    ELSE IF req.json = NoBody THEN "nobody"
    ELSE IF req.json_id # None THEN "json"
    ELSE "none"

AppInit ==
    /\ StoreIdle
    /\ ScrollIdle
    /\ ConcIdle
    /\ CacheIdle
    /\ TwoIdle
    /\ VdbIdle
    /\ vanna_app \in [allow_llm_to_see_data : BOOLEAN, run_sql_is_set : BOOLEAN]
    /\ issued = {}
    /\ ran = {}
    /\ charted = {}
    /\ resp = NoRequest

\* the application answers request req on route with o
Respond(route, req, o) ==
    /\ cache' = o.cache
    /\ resp' = [route |-> route, logged_in |-> req.logged_in, id_from |-> IdFrom(req),
                req_id |-> RequestId(req),
                type |-> o.type, error |-> o.error, id |-> o.id, body |-> o.body,
                vn_calls |-> o.vn_calls, changed |-> o.cache # cache]
    /\ issued' = IF route = "generate_sql" /\ o.type = "sql"
                 THEN issued \cup {o.id} ELSE issued
    /\ ran' = IF route = "run_sql" /\ o.type = "df" THEN ran \cup {o.id} ELSE ran
    /\ charted' = IF route = "generate_plotly_figure" /\ o.type = "plotly_figure"
                  THEN charted \cup {o.id} ELSE charted
    /\ UNCHANGED <<vanna_app, shadow, got, qdrantVars, twoVars, vdbVars>>

\* requests are served one at a time: resp = NoRequest between two of them
KnownIds == issued \cup {Forged}

\* a GET request has no body
GetRequests == {r \in Requests(KnownIds, {None}, {None}) : r.json = NoBody}

ServeGenerateSql ==
    /\ resp = NoRequest
    /\ \E req \in {r \in Requests({}, {None, Text(1)}, {None}) : r.json = NoBody} :
            \E o \in requires_auth(req, cache,
                         generate_sql(cache, IssuedId(Cardinality(issued) + 1), req)) :
                /\ o.type = "sql" => Cardinality(issued) < MaxIssued
                /\ Respond("generate_sql", req, o)

ServeRunSql ==
    /\ resp = NoRequest
    /\ \E req \in GetRequests :
            \E o \in requires_auth(req, cache,
                         Gated(cache, <<"sql">>, req,
                               run_sql(vanna_app, cache, RequestId(req)))) :
                Respond("run_sql", req, o)

ServeFixSql ==
    /\ resp = NoRequest
    /\ \E req \in Requests(KnownIds, {None}, {None, Text(1)}) :
            \E o \in requires_auth(req, cache,
                         Gated(cache, <<"question", "sql">>, req,
                               fix_sql(cache, RequestId(req), req))) :
                Respond("fix_sql", req, o)

ServeUpdateSql ==
    /\ resp = NoRequest
    /\ \E req \in Requests(KnownIds, {None}, {None, Text(1)}) :
            \E o \in requires_auth(req, cache,
                         Gated(cache, <<>>, req,
                               update_sql(cache, RequestId(req), req))) :
                Respond("update_sql", req, o)

ServeDownloadCsv ==
    /\ resp = NoRequest
    /\ \E req \in GetRequests :
            \E o \in requires_auth(req, cache,
                         Gated(cache, <<"df">>, req,
                               download_csv(cache, RequestId(req)))) :
                Respond("download_csv", req, o)

ServeGeneratePlotlyFigure ==
    /\ resp = NoRequest
    /\ \E req \in GetRequests :
            \E o \in requires_auth(req, cache,
                         Gated(cache, <<"df", "question", "sql">>, req,
                               generate_plotly_figure(cache, RequestId(req)))) :
                Respond("generate_plotly_figure", req, o)

ServeGenerateFollowupQuestions ==
    /\ resp = NoRequest
    /\ \E req \in GetRequests :
            \E o \in requires_auth(req, cache,
                         Gated(cache, <<"df", "question", "sql">>, req,
                               generate_followup_questions(vanna_app, cache, RequestId(req)))) :
                Respond("generate_followup_questions", req, o)

ServeGenerateSummary ==
    /\ resp = NoRequest
    /\ \E req \in GetRequests :
            \E o \in requires_auth(req, cache,
                         Gated(cache, <<"df", "question">>, req,
                               generate_summary(vanna_app, cache, RequestId(req)))) :
                Respond("generate_summary", req, o)

ServeLoadQuestion ==
    /\ resp = NoRequest
    /\ \E req \in GetRequests :
            \E o \in requires_auth(req, cache,
                         Gated(cache, <<"question", "sql", "df", "fig_json">>, req,
                               load_question(cache, RequestId(req)))) :
                Respond("load_question", req, o)

ServeGetQuestionHistory ==
    /\ resp = NoRequest
    /\ \E req \in {r \in Requests({}, {None}, {None}) : r.json = NoBody} :
            \E o \in requires_auth(req, cache, get_question_history(cache)) :
                Respond("get_question_history", req, o)

\* the response is sent and the request context is gone
SendResponse ==
    /\ resp # NoRequest
    /\ resp' = NoRequest
    /\ UNCHANGED <<vanna_app, issued, ran, charted, cacheVars, qdrantVars, twoVars, vdbVars>>

AppNext ==
    \/ SendResponse
    \/ ServeGenerateSql
    \/ ServeRunSql
    \/ ServeFixSql
    \/ ServeUpdateSql
    \/ ServeDownloadCsv
    \/ ServeGeneratePlotlyFigure
    \/ ServeGenerateFollowupQuestions
    \/ ServeGenerateSummary
    \/ ServeLoadQuestion
    \/ ServeGetQuestionHistory

AppSpec == AppInit /\ [][AppNext]_vars

\* --------------------------------------------- two applications, one process
\* def __init__(self, vn, cache: Cache = MemoryCache(), ...): the default is
\* evaluated once, when the class body runs, so every application constructed
\* without a cache argument is handed the same MemoryCache object. Variable
\* cache is the content of that object.
TwoInit ==
    /\ StoreIdle
    /\ ScrollIdle
    /\ ConcIdle
    /\ CacheIdle
    /\ AppIdle
    /\ VdbIdle
    /\ TwoIdle

\* self.cache of application a, as the constructor assigned it
SelfCache(a) == IF app_cache[a] = "default" THEN cache ELSE own[a]

\* the handlers of application a leave c in self.cache
StoreCache(a, c) ==
    IF app_cache[a] = "default"
    THEN cache' = c /\ UNCHANGED own
    ELSE own' = [own EXCEPT ![a] = c] /\ UNCHANGED cache

\* the settings of the two applications
TwoSettings == [allow_llm_to_see_data |-> FALSE, run_sql_is_set |-> TRUE]

AllIssued == UNION {issued_by[a] : a \in Apps}

\* VannaFlaskApp(vn) or VannaFlaskApp(vn, cache=MemoryCache())
ConstructApp ==
    \E a \in Apps, arg \in {"default", "own"} :
        /\ app_cache[a] = "none"
        /\ app_cache' = [app_cache EXCEPT ![a] = arg]
        /\ UNCHANGED <<own, issued_by, seen, cacheVars, appVars, vdbVars, qdrantVars>>

TwoGenerateSql ==
    \E a \in Apps :
        /\ app_cache[a] # "none"
        /\ Cardinality(AllIssued) < MaxIssued
        /\ \E o \in generate_sql(SelfCache(a), IssuedId(Cardinality(AllIssued) + 1),
                                  [question |-> Text(a)]) :
              /\ StoreCache(a, o.cache)
              /\ issued_by' = [issued_by EXCEPT
                                 ![a] = IF o.type = "sql" THEN @ \cup {o.id} ELSE @]
              /\ seen' = [app |-> a, route |-> "generate_sql", type |-> o.type,
                          id |-> o.id, questions |-> <<>>]
        /\ UNCHANGED <<app_cache, shadow, got, appVars, vdbVars, qdrantVars>>

TwoRunSql ==
    \E a \in Apps, id \in AllIssued \cup {Forged} :
        /\ app_cache[a] # "none"
        /\ \E o \in Gated(SelfCache(a), <<"sql">>,
                           [args_id |-> id, json |-> NoBody, json_id |-> None],
                           run_sql(TwoSettings, SelfCache(a), id)) :
              /\ StoreCache(a, o.cache)
              /\ seen' = [app |-> a, route |-> "run_sql", type |-> o.type,
                          id |-> id, questions |-> <<>>]
        /\ UNCHANGED <<app_cache, issued_by, shadow, got, appVars, vdbVars, qdrantVars>>

TwoGetQuestionHistory ==
    \E a \in Apps :
        /\ app_cache[a] # "none"
        /\ seen' = [app |-> a, route |-> "get_question_history", type |-> "question_history",
                    id |-> None,
                    questions |-> MemoryCache_get_all(SelfCache(a), <<"question">>)]
        /\ UNCHANGED <<app_cache, own, issued_by, cacheVars, appVars, vdbVars, qdrantVars>>

TwoNext ==
    \/ ConstructApp
    \/ TwoGenerateSql
    \/ TwoRunSql
    \/ TwoGetQuestionHistory

TwoSpec == TwoInit /\ [][TwoNext]_vars

\* ------------------------------------------------------ the VannaDB store
\* The service behind _rpc_call holds the training data; what it answers to
\* get_related_training_data is modelled as all it holds at that moment.
VdbQuestions == {Text(1), Text(2)}

VdbTexts == {Text(1)}

VdbKinds == {"sql", "ddl", "documentation"}

\* the ids the service gives to training data
VdbIds == {<<kind, text>> : kind \in VdbKinds, text \in VdbTexts}

\* an rpc answers with a "result" or without one
RpcAnswers == {"result", "error"}

\* TrainingData(**d["result"]) of get_related_training_data
TrainingData(t) ==
    [cached |-> TRUE, questions |-> t.sql, ddl |-> t.ddl, documentation |-> t.documentation]

\* question not in self.related_training_data
NotCached == [cached |-> FALSE, questions |-> {}, ddl |-> {}, documentation |-> {}]

VdbInit ==
    /\ StoreIdle
    /\ ScrollIdle
    /\ ConcIdle
    /\ CacheIdle
    /\ AppIdle
    /\ TwoIdle
    /\ training = NoTraining
    /\ related_training_data = [q \in VdbQuestions |-> NotCached]
    /\ reply = NoReply

\* add_question_sql, add_ddl, add_documentation: [training, raised] after the
\* rpc answered d
vdb_add(t, kind, text, d) ==
    IF d # "result"
    THEN [training |-> t, raised |-> "Exception"]
    ELSE [training |-> [t EXCEPT ![kind] = @ \cup {text}], raised |-> ""]

\* remove_training_data
vdb_remove_training_data(t, id, d) ==
    IF d # "result"
    THEN [training |-> t, raised |-> "Exception"]
    ELSE IF id[2] \notin t[id[1]]
    THEN [training |-> t, raised |-> "Exception"]
    ELSE [training |-> [t EXCEPT ![id[1]] = @ \ {id[2]}], raised |-> ""]

\* get_related_training_data_cached: [cache, ret]
get_related_training_data_cached(rtd, t, question, d) ==
    IF d # "result"
    THEN [cache |-> rtd, ret |-> NotCached]
    ELSE [cache |-> [rtd EXCEPT ![question] = TrainingData(t)], ret |-> TrainingData(t)]

\* get_similar_question_sql, get_related_ddl, get_related_documentation:
\* [cache, ret, raised]; field is the attribute of TrainingData returned
vdb_get(rtd, t, question, field, d) ==
    IF rtd[question].cached
    THEN [cache |-> rtd, ret |-> rtd[question][field], raised |-> ""]
    ELSE LET fetched == get_related_training_data_cached(rtd, t, question, d)
         IN  IF fetched.ret.cached
             THEN [cache |-> fetched.cache, ret |-> fetched.ret[field], raised |-> ""]
             ELSE [cache |-> fetched.cache, ret |-> None, raised |-> "AttributeError"]

VdbAddQuestionSql ==
    \E text \in VdbTexts, d \in RpcAnswers :
        LET r == vdb_add(training, "sql", text, d)
        IN  /\ training' = r.training
            /\ reply' = [op |-> "add_question_sql", question |-> None, ret |-> None,
                         raised |-> r.raised, cached |-> FALSE]
            /\ UNCHANGED <<related_training_data, cacheVars, appVars, twoVars, qdrantVars>>

VdbAddDdl ==
    \E text \in VdbTexts, d \in RpcAnswers :
        LET r == vdb_add(training, "ddl", text, d)
        IN  /\ training' = r.training
            /\ reply' = [op |-> "add_ddl", question |-> None, ret |-> None,
                         raised |-> r.raised, cached |-> FALSE]
            /\ UNCHANGED <<related_training_data, cacheVars, appVars, twoVars, qdrantVars>>

VdbAddDocumentation ==
    \E text \in VdbTexts, d \in RpcAnswers :
        LET r == vdb_add(training, "documentation", text, d)
        IN  /\ training' = r.training
            /\ reply' = [op |-> "add_documentation", question |-> None, ret |-> None,
                         raised |-> r.raised, cached |-> FALSE]
            /\ UNCHANGED <<related_training_data, cacheVars, appVars, twoVars, qdrantVars>>

VdbRemoveTrainingData ==
    \E id \in VdbIds, d \in RpcAnswers :
        LET r == vdb_remove_training_data(training, id, d)
        IN  /\ training' = r.training
            /\ reply' = [op |-> "remove_training_data", question |-> None, ret |-> None,
                         raised |-> r.raised, cached |-> FALSE]
            /\ UNCHANGED <<related_training_data, cacheVars, appVars, twoVars, qdrantVars>>

VdbGetSimilarQuestionSql ==
    \E question \in VdbQuestions, d \in RpcAnswers :
        LET r == vdb_get(related_training_data, training, question, "questions", d)
        IN  /\ related_training_data' = r.cache
            /\ reply' = [op |-> "get_similar_question_sql", question |-> question, ret |-> r.ret,
                         raised |-> r.raised,
                         cached |-> related_training_data[question].cached]
            /\ UNCHANGED <<training, cacheVars, appVars, twoVars, qdrantVars>>

VdbGetRelatedDdl ==
    \E question \in VdbQuestions, d \in RpcAnswers :
        LET r == vdb_get(related_training_data, training, question, "ddl", d)
        IN  /\ related_training_data' = r.cache
            /\ reply' = [op |-> "get_related_ddl", question |-> question, ret |-> r.ret,
                         raised |-> r.raised,
                         cached |-> related_training_data[question].cached]
            /\ UNCHANGED <<training, cacheVars, appVars, twoVars, qdrantVars>>

VdbGetRelatedDocumentation ==
    \E question \in VdbQuestions, d \in RpcAnswers :
        LET r == vdb_get(related_training_data, training, question, "documentation", d)
        IN  /\ related_training_data' = r.cache
            /\ reply' = [op |-> "get_related_documentation", question |-> question, ret |-> r.ret,
                         raised |-> r.raised,
                         cached |-> related_training_data[question].cached]
            /\ UNCHANGED <<training, cacheVars, appVars, twoVars, qdrantVars>>

VdbNext ==
    \/ VdbAddQuestionSql
    \/ VdbAddDdl
    \/ VdbAddDocumentation
    \/ VdbRemoveTrainingData
    \/ VdbGetSimilarQuestionSql
    \/ VdbGetRelatedDdl
    \/ VdbGetRelatedDocumentation

VdbSpec == VdbInit /\ [][VdbNext]_vars

\* ================================================================ claims
\* vocabulary of the claims
SuffixSql == <<"s", "q", "l">>
SuffixDdl == <<"d", "d", "l">>
SuffixDoc == <<"d", "o", "c">>

KnownSuffixes == {SuffixSql, SuffixDdl, SuffixDoc}

\* the opaque id of native id N in a collection, written out
OpaqueId(N, name) ==
    N \o <<"-">> \o (IF name = "sql" THEN SuffixSql
                     ELSE IF name = "ddl" THEN SuffixDdl
                     ELSE SuffixDoc)

\* the segment after the last "-" of an id that has one
TrailingSegment(id) == SubSeq(id, MaxOf(DashPositions(id)) + 1, Len(id))

WellFormedId(id) == DashPositions(id) # {} /\ TrailingSegment(id) \in KnownSuffixes

\* C1: whenever an add_* call has returned an opaque id, decoding the opaque
\* id of its native id N in any of the three collections gives back N and
\* that collection.
C1_CodecRoundTrip ==
    (last.op \in {"add_question_sql", "add_ddl", "add_documentation"} /\ last.raised = "") =>
        LET N == rsplit(last.ret)[1]
        IN  \A name \in CollectionNames :
                _parse_point_id(_format_point_id(N, name))
                    = [raised |-> "", id |-> N, collection_name |-> name]

\* C2: add_question_sql(question, sql) returns the opaque id of the pair with
\* suffix sql, and the sql collection then holds exactly one point for the
\* pair, with payload {question, sql}.
C2_IdempotentSqlWrite ==
    last.op = "add_question_sql" =>
        /\ last.raised = ""
        /\ last.ret = OpaqueId(SqlPoint(last.arg[1], last.arg[2]).id, "sql")
        /\ Cardinality({p \in collections["sql"] :
                           p.payload = [question |-> last.arg[1], sql |-> last.arg[2]]}) = 1

\* C3: every add_ddl(t) returns the same opaque id, which ends in -ddl, and
\* leaves exactly one ddl point for t, however often it was called; likewise
\* add_documentation with -doc; and an add to one kind leaves the other two
\* collections as they were.
C3_IdempotentDdlDocWrite ==
    /\ last.op = "add_ddl" =>
        /\ last.raised = ""
        /\ rsplit(last.ret) = <<deterministic_uuid(last.arg), SuffixDdl>>
        /\ Cardinality({p \in collections["ddl"] : p.payload.ddl = last.arg}) = 1
        /\ Cardinality({p \in collections["ddl"] : p.id = deterministic_uuid(last.arg)}) = 1
        /\ collections["sql"] = last.before["sql"]
        /\ collections["documentation"] = last.before["documentation"]
        /\ \A p \in last.before["ddl"] : p.payload.ddl # last.arg => p \in collections["ddl"]
    /\ last.op = "add_documentation" =>
        /\ last.raised = ""
        /\ rsplit(last.ret) = <<deterministic_uuid(last.arg), SuffixDoc>>
        /\ Cardinality({p \in collections["documentation"] :
                           p.payload.documentation = last.arg}) = 1
        /\ Cardinality({p \in collections["documentation"] :
                           p.id = deterministic_uuid(last.arg)}) = 1
        /\ collections["sql"] = last.before["sql"]
        /\ collections["ddl"] = last.before["ddl"]
        /\ \A p \in last.before["documentation"] :
              p.payload.documentation # last.arg => p \in collections["documentation"]
    /\ \A a, b \in added :
          (a.op = b.op /\ a.arg = b.arg /\ a.op \in {"add_ddl", "add_documentation"})
              => a.ret = b.ret

\* C3 witness: a text is added as documentation for the second time while
\* DDL statements are stored.
C3_Witness ==
    /\ last.op = "add_documentation"
    /\ \E p \in last.before["documentation"] : p.payload.documentation = last.arg
    /\ collections["ddl"] # {}
    /\ collections["sql"] # {}

\* the recorded add_* calls of one operation
AddedBy(op) == {a \in added : a.op = op}

\* The collections hold what one add_question_sql, one add_ddl and one
\* add_documentation put there, and nothing else.
OneAddOfEachKind ==
    /\ Cardinality(AddedBy("add_question_sql")) = 1
    /\ Cardinality(AddedBy("add_ddl")) = 1
    /\ Cardinality(AddedBy("add_documentation")) = 1
    /\ \A p \in collections["sql"] :
          \E a \in AddedBy("add_question_sql") :
              p.payload = [question |-> a.arg[1], sql |-> a.arg[2]]
    /\ \E a \in AddedBy("add_ddl") :
          \A p \in collections["ddl"] : p.payload.ddl = a.arg
    /\ collections["ddl"] # {}
    /\ \E a \in AddedBy("add_documentation") :
          \A p \in collections["documentation"] : p.payload.documentation = a.arg
    /\ collections["documentation"] # {}

\* the rows of a table with a given training_data_type
RowsOfType(df, type) == {i \in 1..Len(df) : df[i].training_data_type = type}

\* C4: after one add_question_sql, one add_ddl and one add_documentation on
\* empty collections, get_training_data returns exactly three rows, one per
\* training_data_type, with the question set only in the sql row.
C4_RoundTripListing ==
    (last.op = "get_training_data" /\ OneAddOfEachKind) =>
        /\ last.raised = ""
        /\ Len(last.ret) = 3
        /\ \A type \in {"sql", "ddl", "documentation"} :
              Cardinality(RowsOfType(last.ret, type)) = 1
        /\ \A i \in 1..Len(last.ret) :
              (last.ret[i].question # None) <=> (last.ret[i].training_data_type = "sql")

\* the number of artifacts stored in all three collections
StoredCount ==
    Cardinality(collections["sql"]) + Cardinality(collections["ddl"])
        + Cardinality(collections["documentation"])

\* C5: get_training_data returns a table and never raises, whichever
\* collections are empty: zero rows when all are, and otherwise the rows of
\* every non-empty collection.
C5_EmptyListingIsNoError ==
    last.op = "get_training_data" =>
        /\ last.raised = ""
        /\ Len(last.ret) = StoredCount
        /\ \A name \in CollectionNames :
              Cardinality(RowsOfType(last.ret, name)) = Cardinality(collections[name])

\* C6: every row that get_training_data builds carries the opaque id and the
\* text of one and the same artifact of the collection its training_data_type
\* names.
C6_NoRowMixesCollections ==
    last.op = "get_training_data" =>
        \A i \in 1..Len(last.df) :
            LET row == last.df[i]
            IN  /\ row.training_data_type = "sql" =>
                      \E p \in collections["sql"] :
                          /\ row.id = OpaqueId(p.id, "sql")
                          /\ row.content = p.payload.sql
                          /\ row.question = p.payload.question
                /\ row.training_data_type = "ddl" =>
                      \E p \in collections["ddl"] :
                          /\ row.id = OpaqueId(p.id, "ddl")
                          /\ row.content = p.payload.ddl
                /\ row.training_data_type = "documentation" =>
                      \E p \in collections["documentation"] :
                          /\ row.id = OpaqueId(p.id, "documentation")
                          /\ row.content = p.payload.documentation

\* what the three retrieval operations can return in the current state
SimilarSqlOutcomes ==
    {r.ret : r \in UNION {get_similar_question_sql(collections, n_results, q) : q \in Texts}}

RelatedDdlOutcomes ==
    {r.ret : r \in UNION {get_related_ddl(collections, n_results, q) : q \in Texts}}

RelatedDocumentationOutcomes ==
    {r.ret : r \in UNION {get_related_documentation(collections, n_results, q) : q \in Texts}}

Elements(seq) == {seq[i] : i \in 1..Len(seq)}

\* the recorded add_* call that returned the id removed last
RemovedAdds == {a \in added : a.raised = "" /\ a.ret = last.arg}

OwnerOf(id) ==
    IF TrailingSegment(id) = SuffixSql THEN "sql"
    ELSE IF TrailingSegment(id) = SuffixDdl THEN "ddl"
    ELSE "documentation"

\* C8: remove_training_data returns True for every id whose trailing segment
\* is sql, ddl or doc, stored or not, after one delete on the owning
\* collection, and False only for the other ids.
C8_DeleteIfPresent ==
    last.op = "remove_training_data" =>
        /\ WellFormedId(last.arg) =>
              /\ last.ret = "True"
              /\ last.calls = << <<"delete", OwnerOf(last.arg)>> >>
        /\ last.ret = "False" => ~WellFormedId(last.arg)

\* C9: for an id without "-" or with a trailing segment other than sql, ddl
\* and doc, _parse_point_id raises, remove_training_data returns False, issues
\* no backend call and leaves all collections as they were.
C9_DecodingErrorHasNoEffect ==
    (last.op = "remove_training_data" /\ ~WellFormedId(last.arg)) =>
        /\ _parse_point_id(last.arg).raised = "ValueError"
        /\ last.raised = ""
        /\ last.ret = "False"
        /\ last.calls = <<>>
        /\ collections = last.before

\* C9 witness: a malformed id with a separator was passed while artifacts
\* were stored in every collection.
C9_Witness ==
    /\ last.op = "remove_training_data"
    /\ ~WellFormedId(last.arg)
    /\ DashPositions(last.arg) # {}
    /\ \A name \in CollectionNames : collections[name] # {}

Min2(a, b) == IF a < b THEN a ELSE b

\* ret is a nearest-first selection of k of the points, seen through view
RankedSelection(ret, points, view(_), question) ==
    LET q == generate_embedding(question)
        chosen == {p \in points : view(p) \in Elements(ret)}
    IN  /\ Len(ret) = Min2(n_results, Cardinality(points))
        /\ \A i \in 1..Len(ret) : \E p \in points : view(p) = ret[i]
        /\ \A i, j \in 1..Len(ret) : i # j => ret[i] # ret[j]
        /\ \A i, j \in 1..Len(ret) :
              i < j => \A p, r \in points :
                  (view(p) = ret[i] /\ view(r) = ret[j])
                      => Distance(p.vector, q) <= Distance(r.vector, q)
        /\ \A p \in chosen : \A r \in points \ chosen :
              Distance(p.vector, q) <= Distance(r.vector, q)

PayloadOf(p) == p.payload

DdlOf(p) == p.payload.ddl

DocumentationOf(p) == p.payload.documentation

\* C10: each retrieval operation searches its own collection only and
\* returns min(n_results, size) entries, nearest first, none farther than an
\* entry left out; the ddl and documentation operations return the texts.
C10_SimilarityRanking ==
    /\ last.op = "get_similar_question_sql" =>
          /\ last.calls = << <<"search", "sql">> >>
          /\ RankedSelection(last.ret, collections["sql"], PayloadOf, last.arg)
    /\ last.op = "get_related_ddl" =>
          /\ last.calls = << <<"search", "ddl">> >>
          /\ RankedSelection(last.ret, collections["ddl"], DdlOf, last.arg)
    /\ last.op = "get_related_documentation" =>
          /\ last.calls = << <<"search", "documentation">> >>
          /\ RankedSelection(last.ret, collections["documentation"], DocumentationOf, last.arg)

\* C10 witness: a search over two stored SQL examples returned only the
\* nearer one.
C10_Witness ==
    /\ last.op = "get_similar_question_sql"
    /\ Cardinality(collections["sql"]) = 2
    /\ Len(last.ret) = 1

\* C11: against a backend whose cursors resume the scan, a finished
\* _get_all_points holds every point of the collection exactly once, the
\* records of the last page included, and it has finished only on a
\* no-more-data sentinel (None or the empty gRPC PointId); the cursor carried
\* to the next call is the one the backend returned, and an empty page with a
\* cursor does not stop the loop.
C11_ExhaustivePagination ==
    backend_mode = "paging" =>
        /\ next_offset = page.next_offset
        /\ stop_scrolling =>
              /\ IsNoMoreData(next_offset)
              /\ Len(results) = Cardinality(scanned)
              /\ Elements(results) = scanned
        /\ (page.records = <<>> /\ ~IsNoMoreData(page.next_offset)) => ~stop_scrolling
        /\ \A i, j \in 1..Len(results) : i # j => results[i] # results[j]

\* a listing of a full collection that took several pages, one of them empty
\* with a cursor, and ended on the gRPC sentinel with records in the last page
C11_Witness ==
    /\ backend_mode = "paging"
    /\ stop_scrolling
    /\ empty_seen
    /\ Cardinality(scanned) = MaxScanned
    /\ next_offset = GrpcEmptyPointId
    /\ page.records # <<>>
    /\ Len(results) > Len(page.records)

\* C12: the loop of _get_all_points ends whatever cursors the backend
\* returns.
C12_ListingTerminates == <>stop_scrolling

\* C13: remove_collection of one of sql, ddl, documentation returns True and
\* leaves that collection existing and empty, and the other two existing with
\* the contents they had.
C13_ResetIsolates ==
    (last.op = "remove_collection" /\ last.arg \in CollectionNames) =>
        /\ last.raised = ""
        /\ last.ret = "True"
        /\ last.arg \in exists
        /\ collections[last.arg] = {}
        /\ \A name \in CollectionNames \ {last.arg} :
              name \in exists /\ collections[name] = last.before[name]

\* a reset of a collection that held a point, beside two that hold points
C13_Witness ==
    /\ last.op = "remove_collection"
    /\ last.arg = DDL_COLLECTION_NAME
    /\ last.before[DDL_COLLECTION_NAME] # {}
    /\ collections[SQL_COLLECTION_NAME] # {}
    /\ collections[DOCUMENTATION_COLLECTION_NAME] # {}

\* C14: remove_collection of any other name, the id suffix "doc" included,
\* returns False, calls the backend not at all, and leaves the collections
\* as they were.
C14_UnknownCollectionReset ==
    (last.op = "remove_collection" /\ last.arg \notin CollectionNames) =>
        /\ last.raised = ""
        /\ last.ret = "False"
        /\ last.calls = <<>>
        /\ exists = last.existed
        /\ collections = last.before

\* remove_collection("doc") on a store whose documentation collection holds a point
C14_Witness ==
    /\ last.op = "remove_collection"
    /\ last.arg = "doc"
    /\ last.ret = "False"
    /\ collections[DOCUMENTATION_COLLECTION_NAME] # {}

\* C15: when two store objects on one backend have both run add_ddl(t), or
\* both add_documentation(t), side by side, whatever the order of their
\* embedding and upsert steps, both returned the same id and the collection
\* holds exactly one point for t, with payload t.
C15_ConcurrentIdenticalAdds ==
    ((\A self \in Stores : pc[self] = "returned") /\ call[1] = call[2]) =>
        LET name == CollectionOf(call[1].op)
            t == call[1].arg
            payload == IF call[1].op = "add_ddl" THEN [ddl |-> t] ELSE [documentation |-> t]
            for_t == {x \in collections[name] :
                        x.payload = payload \/ x.id = deterministic_uuid(t)}
        IN  /\ returned[1] = returned[2]
            /\ returned[1] = OpaqueId(deterministic_uuid(t), name)
            /\ Cardinality(for_t) = 1
            /\ \A x \in for_t : x.payload = payload /\ x.id = deterministic_uuid(t)

\* both stores have returned from the same add, beside a point of another text
C15_Witness ==
    /\ \A self \in Stores : pc[self] = "returned"
    /\ call[1] = call[2]
    /\ call[1] = [op |-> "add_ddl", arg |-> Text(2)]
    /\ Cardinality(collections[DDL_COLLECTION_NAME]) = 2

\* the collections a log of calls has created, and how often one was created
CreatedIn(calls) == {calls[i][2] : i \in {j \in 1..Len(calls) : calls[j][1] = "create_collection"}}

TimesCreated(calls, name) ==
    Cardinality({i \in 1..Len(calls) : calls[i] = <<"create_collection", name>>})

\* C16: the setup run by a constructor creates exactly the collections that
\* were missing, each once and empty, and leaves the existing ones and their
\* contents alone; run on a backend that has all three (as when a second
\* store is constructed on it) it creates nothing and changes nothing.
C16_SetupIdempotent ==
    (last.op = "__init__" /\ last.raised = "") =>
        /\ CreatedIn(last.calls) = CollectionNames \ last.existed
        /\ \A name \in CollectionNames : TimesCreated(last.calls, name) <= 1
        /\ exists = CollectionNames
        /\ \A name \in CollectionNames :
              collections[name] = IF name \in last.existed THEN last.before[name] ELSE {}
        /\ last.existed = CollectionNames =>
              /\ \A i \in 1..Len(last.calls) : last.calls[i][1] = "collection_exists"
              /\ collections = last.before

\* a store constructed on a backend that had the sql collection, with a
\* point in it, and lacked the other two
C16_Witness ==
    /\ last.op = "__init__"
    /\ last.raised = ""
    /\ last.existed = {SQL_COLLECTION_NAME}
    /\ last.before[SQL_COLLECTION_NAME] # {}
    /\ CreatedIn(last.calls) = {DDL_COLLECTION_NAME, DOCUMENTATION_COLLECTION_NAME}

\* C17: once the constructor has returned, whatever operations have
\* completed on the store, all three collections exist.
C17_CollectionsAlwaysExist == constructed => exists = CollectionNames

\* a store that has taken adds and then a reset
C17_Witness ==
    /\ constructed
    /\ last.op = "remove_collection"
    /\ last.ret = "True"
    /\ added # {}
    /\ exists = CollectionNames

\* C18: a store object computes the probe embedding of "ABCDEF" at most once
\* over its construction and all its resets, holds its length from then on,
\* and has not computed it while it has created no collection.
C18_ProbedAtMostOnce ==
    /\ probes <= 1
    /\ ProbesIn(last.calls) <= 1
    /\ (probes = 1) = created
    /\ (probes = 1) = (embeddings_dimension = <<ProbeDimension>>)
    /\ (probes = 0) = (embeddings_dimension = <<>>)

\* a store constructed on an empty backend (three creations) and then reset
C18_Witness ==
    /\ constructed
    /\ last.op = "remove_collection"
    /\ last.ret = "True"
    /\ probes = 1
    /\ ProbesIn(last.calls) = 0
    /\ collections = [name \in CollectionNames |-> {}]

\* C19: a constructor given a client that is neither absent nor a
\* QdrantClient raises TypeError without one backend or embedding call, the
\* backend as it was; with an absent client or a QdrantClient it does not
\* raise.
C19_UnsupportedClient ==
    last.op = "__init__" =>
        IF last.arg \in {"None", "QdrantClient"}
        THEN last.raised = ""
        ELSE /\ last.raised = "TypeError"
             /\ last.calls = <<>>
             /\ exists = last.existed
             /\ collections = last.before

\* a failed construction on a backend that lacks collections, no store made
C19_Witness ==
    /\ last.op = "__init__"
    /\ last.arg = "str"
    /\ last.raised = "TypeError"
    /\ ~constructed
    /\ exists = {}

\* how often a log of calls has the backend called for op
TimesCalled(calls, op) == Cardinality({i \in 1..Len(calls) : calls[i][1] = op})

\* C20: in add_ddl, add_documentation and the three get_*, a failing
\* embedding or backend call surfaces as the error of the operation; upsert
\* and search are called at most once, and not at all when the embedding
\* failed, in which case every collection is as it was; a failing search is
\* called once and changes nothing.
C20_FaultsSurface ==
    /\ TimesCalled(last.calls, "upsert") <= 1
    /\ TimesCalled(last.calls, "search") <= 1
    /\ fault = "none" => last.raised = ""
    /\ fault = "embedding" =>
          /\ last.raised = "embedding failure"
          /\ last.calls = <<>>
          /\ collections = last.before
    /\ fault = "backend" =>
          /\ last.raised = "backend failure"
          /\ Len(last.calls) = 1
          /\ last.calls[1][1] = "search" => collections = last.before

\* an add whose upsert failed after the point was written
C20_Witness ==
    /\ fault = "backend"
    /\ last.op = "add_ddl"
    /\ last.raised = "backend failure"
    /\ TimesCalled(last.calls, "upsert") = 1
    /\ collections # last.before

\* what a map of (id, field) to value answers for a get
ShadowGet(id, field) ==
    IF <<id, field>> \notin DOMAIN shadow THEN None
    ELSE IF shadow[<<id, field>>] = Absent THEN None
    ELSE shadow[<<id, field>>]

\* the ids that have a field set
ShadowIds == {id \in CacheIds : \E f \in CacheFields : shadow[<<id, f>>] # Absent}

\* C22: under any sequence of set, get, get_all and delete a MemoryCache
\* answers as the map of (id, field) to the value set last and not deleted
\* since: get returns that value, None when there is none; a set has changed
\* no other entry and a delete has removed every field of its id and nothing
\* else; get and get_all have changed nothing; get_all lists each id that has
\* a field set once.
C22_CacheIsAMap ==
    /\ \A id \in CacheIds, f \in CacheFields \cup {"df"} :
          MemoryCache_get(cache, id, f) = ShadowGet(id, f)
    /\ got.op = "get" => got.ret = ShadowGet(got.id, got.field)
    /\ LET listing == MemoryCache_get_all(cache, <<"question">>)
       IN  /\ {listing[k].id : k \in 1..Len(listing)} = ShadowIds
           /\ Len(listing) = Cardinality(ShadowIds)
           /\ \A k \in 1..Len(listing) :
                 listing[k].values["question"] = ShadowGet(listing[k].id, "question")
           /\ got.op = "get_all" => got.ret = listing

\* a get of a field set last to the second value, the other field of the id
\* set to the first and the other id not in the cache
C22_Witness ==
    /\ got.op = "get"
    /\ got.id = Text(1)
    /\ got.field = "sql"
    /\ got.ret = Text(2)
    /\ shadow[<<Text(1), "question">>] = Text(1)
    /\ ~InCache(cache, Text(2))

\* the vn functions the calls of the request served last went to
VnCalled == {resp.vn_calls[i][1] : i \in 1..Len(resp.vn_calls)}

CachedIds == {cache[i].id : i \in 1..Len(cache)}

\* C21: while allow_llm_to_see_data is False no request makes the application
\* call vn.generate_summary or vn.generate_followup_questions; no summary is
\* ever cached, /generate_summary leaves the cache as it was and
\* /generate_followup_questions caches the empty list.
C21_DataStaysAwayFromLlm ==
    ~vanna_app.allow_llm_to_see_data =>
        /\ VnCalled \cap {"generate_summary", "generate_followup_questions"} = {}
        /\ \A id \in CachedIds :
              /\ MemoryCache_get(cache, id, "summary") = None
              /\ MemoryCache_get(cache, id, "followup_questions") \in {None, EmptyList}
        /\ resp.route = "generate_summary" => ~resp.changed
        /\ resp.route = "generate_followup_questions" /\ resp.body =>
              MemoryCache_get(cache, resp.id, "followup_questions") = EmptyList

C21_Witness ==
    /\ ~vanna_app.allow_llm_to_see_data
    /\ resp.route = "generate_followup_questions"
    /\ resp.body
    /\ resp.type = "question_list"
    /\ MemoryCache_get(cache, resp.id, "df") = Frame
    /\ MemoryCache_get(cache, resp.id, "followup_questions") = EmptyList

\* the fields requires_cache is given on each route it wraps
RequiredFields(route) ==
    CASE route = "run_sql" -> <<"sql">>
      [] route = "fix_sql" -> <<"question", "sql">>
      [] route = "update_sql" -> <<>>
      [] route = "download_csv" -> <<"df">>
      [] route = "generate_plotly_figure" -> <<"df", "question", "sql">>
      [] route = "generate_followup_questions" -> <<"df", "question", "sql">>
      [] route = "generate_summary" -> <<"df", "question">>
      [] route = "load_question" -> <<"question", "sql", "df", "fig_json">>

GatedRoutes ==
    {"run_sql", "fix_sql", "update_sql", "download_csv", "generate_plotly_figure",
     "generate_followup_questions", "generate_summary", "load_question"}

\* C23: a handler wrapped by requires_cache runs its body only for a request
\* that carries an id under which every required field is cached; a request
\* without an id is answered "No id provided", one with a field missing
\* "No <field> found" for the first such field, and in both cases the body
\* does not run and the cache is unchanged.
C23_CacheGating ==
    resp.route \in GatedRoutes /\ resp.logged_in =>
        LET missing == FirstMissing(cache, resp.id, RequiredFields(resp.route))
        IN  /\ resp.body => resp.id_from \in {"args", "json"} /\ missing = "none"
            /\ resp.id_from \in {"none", "nobody"} =>
                  /\ resp.type = "error"
                  /\ resp.error = "No id provided"
                  /\ ~resp.body
                  /\ ~resp.changed
            /\ resp.id_from \in {"args", "json"} /\ missing # "none" =>
                  /\ resp.type = "error"
                  /\ resp.error = "No " \o missing \o " found"
                  /\ ~resp.body
                  /\ ~resp.changed

\* C24: a request of a user who is not logged in is answered not_logged_in;
\* neither the cache check nor the body runs, the cache is unchanged and vn
\* is not called.
C24_AuthGating ==
    resp.route # "none" /\ ~resp.logged_in =>
        /\ resp.type = "not_logged_in"
        /\ resp.error = ""
        /\ ~resp.body
        /\ ~resp.changed
        /\ resp.vn_calls = <<>>

C24_Witness ==
    /\ resp.route = "run_sql"
    /\ ~resp.logged_in
    /\ resp.id_from = "args"
    /\ resp.req_id \in issued
    /\ MemoryCache_get(cache, resp.req_id, "sql") # None
    /\ vanna_app.run_sql_is_set
    /\ resp.type = "not_logged_in"

\* C25: every id that is a key of the cache was returned by /generate_sql.
C25_OnlyIssuedIds == CachedIds \subseteq issued

\* C26: the bodies of download_csv, generate_plotly_figure, generate_summary
\* and generate_followup_questions run for an id only after /run_sql has
\* answered type df for that id; load_question succeeds only after that and
\* a /generate_plotly_figure answered plotly_figure; the body of run_sql
\* runs only with an sql cached.
C26_StagesInOrder ==
    /\ resp.body /\ resp.route \in {"download_csv", "generate_plotly_figure",
                                     "generate_summary", "generate_followup_questions"} =>
          resp.id \in ran
    /\ resp.route = "load_question" /\ resp.type = "question_cache" =>
          resp.id \in ran /\ resp.id \in charted
    /\ resp.route = "run_sql" /\ resp.body =>
          MemoryCache_get(cache, resp.id, "sql") # None

\* C27: when vn.run_sql raises, or no database is connected, /run_sql
\* answers sql_error or error and leaves the cache as it was; a
\* /generate_plotly_figure that fails leaves the cache as it was.
C27_FailuresWriteNothing ==
    /\ resp.route = "run_sql" /\ resp.body
          /\ (resp.error = "vn.run_sql" \/ ~vanna_app.run_sql_is_set) =>
          /\ resp.type \in {"sql_error", "error"}
          /\ ~resp.changed
    /\ resp.route = "generate_plotly_figure" /\ resp.body /\ resp.type = "error" =>
          /\ ~resp.changed

C27_Witness ==
    /\ resp.route = "run_sql"
    /\ resp.body
    /\ resp.error = "vn.run_sql"
    /\ resp.type = "sql_error"
    /\ MemoryCache_get(cache, resp.id, "df") = Frame
    /\ resp.id \in charted

\* C28: two applications constructed without a cache argument share no
\* session state: the question history of one lists only ids its own
\* /generate_sql returned, and its /run_sql finds an sql only under such ids.
C28_NoSharedSessions ==
    (\A a \in Apps : app_cache[a] = "default") /\ seen.route # "none" =>
        /\ \A k \in 1..Len(seen.questions) :
              seen.questions[k].id \in issued_by[seen.app]
        /\ seen.route = "run_sql" /\ seen.type # "error" =>
              seen.id \in issued_by[seen.app]

\* what the service would answer now for the attribute a get_* returns
CurrentAnswer(op) ==
    CASE op = "get_similar_question_sql" -> training.sql
      [] op = "get_related_ddl" -> training.ddl
      [] op = "get_related_documentation" -> training.documentation

\* C29: what get_similar_question_sql, get_related_ddl and
\* get_related_documentation return for a question, asked before or not, is
\* the training data the service holds at the time of the call.
C29_NeverStale ==
    reply.op \in {"get_similar_question_sql", "get_related_ddl", "get_related_documentation"}
        /\ reply.raised = "" =>
            reply.ret = CurrentAnswer(reply.op)

====
